---- MODULE Spec2Model ----
(***************************************************************************)
(* Model of the OpenPGP signature subsystem of sq-dsm:                     *)
(*   - the subpacket length codec and the SubpacketArea byte buffer with   *)
(*     its lazily built lookup cache (openpgp/src/subpacket.rs),           *)
(*   - the SignatureBuilder / Signature sign_* and verify_* operations     *)
(*     (openpgp/src/packet/signature/mod.rs).                              *)
(* Bytes are integers 0..255, byte strings are sequences of bytes, and a   *)
(* SubpacketTag is represented by its wire octet (the From<u8> / Into<u8>  *)
(* tables of subpacket.rs:170-236 are mutually inverse).                   *)
(***************************************************************************)
EXTENDS Integers, Sequences, FiniteSets, TLC

VARIABLES
    \* ---- length codec harness (length_roundtrip) ----
    lenPc,        \* "input" | "serialized" | "parsed"
    lenIn,        \* the SubpacketLength under test (u32)
    lenBytes,     \* bytes written by SubpacketLength::serialize
    lenOut,       \* result of SubpacketLength::parse on lenBytes
    \* ---- SubpacketArea ----
    data,         \* SubpacketArea.data: Vec<u8>
    parsed,       \* SubpacketArea.parsed: None or the tag -> (critical, start, len) map
    areaOp,       \* record describing the last SubpacketArea call and its result
    areaOps,      \* number of SubpacketArea calls made so far
    \* ---- SignatureBuilder / Signature ----
    builder,      \* the SignatureBuilder under construction, or NoValue
    sig,          \* the Signature at hand (built, or returned by sign_*), or NoValue
    made,         \* the sign_* call that returned sig: operation, signer, message
    now,          \* SystemTime::now(), in seconds
    sigOp,        \* record describing the last sign_* / verify_* call and its result
    \* ---- KeyIter / ValidKeyIter ----
    kit,          \* the key iterator: KeyIter before policy(), ValidKeyIter after
    kitOp,        \* record describing the last call on the iterator and its result
    yielded,      \* the keys returned by next so far, in order
    asked,        \* what the caller asked for: flag sets, skip_primary, the
                  \* arguments of revoked in call order, the key handles (each
                  \* with the stage it was given at), and the number of calls
    \* ---- key_expired_at ----
    expIn,        \* the key's creation time, the binding's key expiration, the time
    expOut,       \* the outcome of key_expired_at on expIn
    \* ---- From<SubpacketRaw> for Subpacket ----
    rawIn,        \* the raw subpacket at hand: critical, tag, payload bytes
    rawOut        \* the Subpacket it converts to

lenVars  == <<lenPc, lenIn, lenBytes, lenOut>>
areaVars == <<data, parsed, areaOp, areaOps>>
sigVars  == <<builder, sig, made, now, sigOp>>
iterVars == <<kit, kitOp, yielded, asked>>
expVars  == <<expIn, expOut>>
rawVars  == <<rawIn, rawOut>>
vars     == <<lenPc, lenIn, lenBytes, lenOut, data, parsed, areaOp, areaOps,
              builder, sig, made, now, sigOp, kit, kitOp, yielded, asked,
              expIn, expOut, rawIn, rawOut>>

\* Option::None; a present value is a record whose field some is TRUE.
NoValue == [some |-> FALSE]

-----------------------------------------------------------------------------
(* Generic helpers on byte strings.                                        *)

U16Max == 65535

\* n copies of byte b.
Fill(n, b) == [i \in 1..n |-> b]

\* The element of a singleton set.  The({e(x) : x \in {v}}) is e(v) with v
\* computed once and bound to x: a local constant of the code.
The(S) == CHOOSE x \in S : TRUE

\* from_be_u32: the first four bytes, or "none" when fewer than four.
from_be_u32(value) ==
    IF Len(value) >= 4
    THEN [some |-> TRUE,
          v |-> value[1] * 16777216 + value[2] * 65536 + value[3] * 256 + value[4]]
    ELSE [some |-> FALSE, v |-> 0]

-----------------------------------------------------------------------------
(* SubpacketLength codec.                                                  *)

\* SubpacketLength::len
SubpacketLengthLen(v) ==
    IF v < 192 THEN 1 ELSE IF v < 16320 THEN 2 ELSE 5

\* SubpacketLength::serialize: the bytes written to the sink.  The last
\* branch writes the four big-endian octets of v and nothing else.
SubpacketLengthSerialize(v) ==
    IF v < 192 THEN <<v>>
    ELSE IF v < 16320
         THEN LET w == v - 192 + 192 * 256
              IN  <<(w \div 256) % 256, w % 256>>
         ELSE <<(v \div 16777216) % 256, (v \div 65536) % 256,
                (v \div 256) % 256, v % 256>>

\* SubpacketLength::parse reading bytes at 1-based position pos.
\* ok = FALSE models the io error of data_consume_hard / read_be_u32 at EOF.
\* next is the position after the length header.
SubpacketLengthParse(bytes, pos) ==
    IF pos > Len(bytes) THEN [ok |-> FALSE, len |-> 0, next |-> pos]
    ELSE LET octet1 == bytes[pos] IN
         IF octet1 < 192 THEN [ok |-> TRUE, len |-> octet1, next |-> pos + 1]
         ELSE IF octet1 < 255
              THEN IF pos + 1 > Len(bytes)
                   THEN [ok |-> FALSE, len |-> 0, next |-> pos + 1]
                   ELSE [ok |-> TRUE,
                         len |-> (octet1 - 192) * 256 + bytes[pos + 1] + 192,
                         next |-> pos + 2]
              ELSE IF pos + 4 > Len(bytes)
                   THEN [ok |-> FALSE, len |-> 0, next |-> pos + 1]
                   ELSE [ok |-> TRUE,
                         len |-> bytes[pos + 1] * 16777216 + bytes[pos + 2] * 65536
                                 + bytes[pos + 3] * 256 + bytes[pos + 4],
                         next |-> pos + 5]

\* The shortest of the three wire forms able to carry v (section 4.1 of the
\* format description): used only to state the round-trip property.
ShortestForm(v) ==
    IF v < 192 THEN 1 ELSE IF v <= 16319 THEN 2 ELSE 5

-----------------------------------------------------------------------------
(* Length codec harness: the quickcheck property length_roundtrip.         *)

LenSpread == 3

\* Lengths around which the three wire forms change, and the largest
\* length that 32-bit signed integers leave room for.
LengthBoundaries == {0, 192, 255, 16320, 65536, 16777216, 2147483000}

LengthInputs ==
    UNION {{v \in (b - LenSpread)..(b + LenSpread) : v >= 0} : b \in LengthBoundaries}

IdleLen ==
    /\ lenPc = "idle" /\ lenIn = 0 /\ lenBytes = <<>> /\ lenOut = NoValue

InitLenHarness ==
    /\ lenPc = "input"
    /\ lenIn \in LengthInputs
    /\ lenBytes = <<>>
    /\ lenOut = NoValue

\* length.serialize(&mut encoded)
LenSerialize ==
    /\ lenPc = "input"
    /\ lenBytes' = SubpacketLengthSerialize(lenIn)
    /\ lenPc' = "serialized"
    /\ UNCHANGED <<lenIn, lenOut>>
    /\ UNCHANGED <<areaVars, sigVars, iterVars, expVars, rawVars>>

\* SubpacketLength::parse(&mut reader)
LenParse ==
    /\ lenPc = "serialized"
    /\ lenOut' = SubpacketLengthParse(lenBytes, 1)
    /\ lenPc' = "parsed"
    /\ UNCHANGED <<lenIn, lenBytes>>
    /\ UNCHANGED <<areaVars, sigVars, iterVars, expVars, rawVars>>

-----------------------------------------------------------------------------
(* Subpackets and the SubpacketArea byte buffer.                           *)
(* A subpacket is [critical, tag, value] where value is the serialized     *)
(* payload; for the byte-array valued variants SubpacketValue::len is the  *)
(* number of payload bytes.                                                *)

\* SubpacketValue::len
SubpacketValueLen(packet) == Len(packet.value)

\* Subpacket::len: "the length of the serialized subpacket" as add() sees it.
SubpacketLen(packet) ==
    LET value_len == SubpacketValueLen(packet)
    IN  1 + SubpacketLengthLen(value_len) + value_len

\* The tag octet: bit 7 is the critical flag, bits 0-6 the tag.
TagOctet(critical, tag) == tag + (IF critical THEN 128 ELSE 0)

\* Serialize for Subpacket: length header over tag-plus-payload, the tag
\* octet, the payload (the same record layout remove_all re-emits and
\* SubpacketAreaIter reads).
SubpacketSerialize(packet) ==
    SubpacketLengthSerialize(1 + SubpacketValueLen(packet))
        \o <<TagOctet(packet.critical, packet.tag)>>
        \o packet.value

\* SubpacketAreaIter::next, iterated to exhaustion from 1-based position pos.
\* Each item is (start, len, SubpacketRaw{critical, tag, value}); start is the
\* 0-based offset of the payload in the buffer.
RECURSIVE IterFrom(_, _)
IterFrom(d, pos) ==
    The({IF ~l.ok THEN <<>>
         ELSE IF Len(d) - (l.next - 1) < l.len THEN <<>>
         ELSE IF l.len = 0 THEN IterFrom(d, l.next)
         ELSE LET octet == d[l.next]
                  start == l.next
                  n     == l.len - 1
              IN  <<[start    |-> start,
                     len      |-> n,
                     critical |-> octet >= 128,
                     tag      |-> octet % 128,
                     value    |-> SubSeq(d, start + 1, start + n)]>>
                  \o IterFrom(d, start + n + 1) :
            l \in {SubpacketLengthParse(d, pos)}})

\* SubpacketArea::iter
AreaIter(d) == IterFrom(d, 1)

\* The two assert!s of SubpacketAreaIter::next: TRUE when iterating d aborts.
IterPanics(d) ==
    \E recs \in {AreaIter(d)} :
        \E i \in DOMAIN recs : recs[i].start > U16Max \/ recs[i].len > U16Max

\* Variant keeping the first occurrence of a tag instead of the last.
LastIndexOf_KeepFirst(recs, tag) ==
    LET S == {i \in DOMAIN recs : recs[i].tag = tag}
    IN  IF S = {} THEN 0 ELSE CHOOSE i \in S : \A j \in S : i <= j

\* Index of the last item of recs carrying tag, 0 if none.
LastIndexOf(recs, tag) ==
    LET S == {i \in DOMAIN recs : recs[i].tag = tag}
    IN  IF S = {} THEN 0 ELSE CHOOSE i \in S : \A j \in S : j <= i

\* The map cache_init builds: tag -> (critical, start as u16, len as u16) of
\* the last occurrence (HashMap::insert overwrites earlier entries).
CacheBuild(d) ==
    The({[some |-> TRUE,
          map  |-> [t \in {recs[i].tag : i \in DOMAIN recs} |->
                      LET r == recs[LastIndexOf(recs, t)]
                      IN  <<r.critical, r.start % 65536, r.len % 65536>>]] :
            recs \in {AreaIter(d)}})

\* cache_init: the cache after the call.
CacheInit(d, cache) == IF ~cache.some THEN CacheBuild(d) ELSE cache

\* SubpacketArea::lookup on buffer d with cache state cache: the raw
\* subpacket handed to From<SubpacketRaw>, or NoValue.
LookupIn(d, cache, tag) ==
    The({IF tag \in DOMAIN c
         THEN [some     |-> TRUE,
               critical |-> c[tag][1],
               tag      |-> tag,
               value    |-> SubSeq(d, c[tag][2] + 1, c[tag][2] + c[tag][3])]
         ELSE NoValue :
            c \in {CacheInit(d, cache).map}})

\* The bytes remove_all leaves: every non-matching record re-emitted as
\* length(1 + payload size), tag octet, payload.
RECURSIVE Reemit(_, _)
Reemit(recs, tag) ==
    IF recs = <<>> THEN <<>>
    ELSE LET raw == Head(recs) IN
         (IF raw.tag = tag THEN <<>>
          ELSE SubpacketLengthSerialize(1 + Len(raw.value))
                   \o <<TagOctet(raw.critical, raw.tag)>>
                   \o raw.value)
         \o Reemit(Tail(recs), tag)

RemoveAllBytes(d, tag) == Reemit(AreaIter(d), tag)

\* Signature::subpackets applied to one area: every record with the target
\* tag, pushed in iteration order.
RECURSIVE PushMatching(_, _)
PushMatching(recs, target) ==
    IF recs = <<>> THEN <<>>
    ELSE (IF Head(recs).tag = target
          THEN <<[critical |-> Head(recs).critical, tag |-> Head(recs).tag,
                  value |-> Head(recs).value]>>
          ELSE <<>>)
         \o PushMatching(Tail(recs), target)

Subpackets(d, target) == PushMatching(AreaIter(d), target)

\* The size check of add.
AddFits(d, packet) == ~(Len(d) + SubpacketLen(packet) > U16Max)

\* SubpacketArea::add as a function of the buffer: [ok, data].
AddIn(d, packet) ==
    IF ~AddFits(d, packet)
    THEN [ok |-> FALSE, data |-> d]
    ELSE [ok |-> TRUE, data |-> d \o SubpacketSerialize(packet)]

\* Variant of replace that keeps the stripped buffer when add fails.
ReplaceIn_NoRollback(d, packet) ==
    The({[ok |-> r.ok, data |-> r.data] :
            r \in {AddIn(RemoveAllBytes(d, packet.tag), packet)}})

\* SubpacketArea::replace as a function of the buffer: [ok, data].
ReplaceIn(d, packet) ==
    LET old == d IN
    The({IF ~r.ok THEN [ok |-> FALSE, data |-> old]
         ELSE [ok |-> TRUE, data |-> r.data] :
            r \in {AddIn(RemoveAllBytes(d, packet.tag), packet)}})

-----------------------------------------------------------------------------
(* SubpacketArea operations as actions.                                    *)

MaxAreaOps == 3

\* Wire octets of the byte-array valued tags used as inputs.
TagPreferredSymmetricAlgorithms == 11
TagPreferredKeyServer == 24
TagPolicyURI == 26
TagFeatures == 30

\* Subpackets offered to add and replace: small and large ones sharing a
\* tag, and payloads at the points where the length header grows.
AreaPackets ==
    { [critical |-> FALSE, tag |-> TagPreferredSymmetricAlgorithms, value |-> <<7, 8>>],
      [critical |-> TRUE,  tag |-> TagPreferredSymmetricAlgorithms, value |-> <<9>>],
      [critical |-> FALSE, tag |-> TagPreferredSymmetricAlgorithms, value |-> Fill(190, 66)],
      [critical |-> FALSE, tag |-> TagPolicyURI, value |-> Fill(191, 65)],
      [critical |-> TRUE,  tag |-> TagPolicyURI, value |-> Fill(16319, 200)] }

AreaTags == {TagPreferredSymmetricAlgorithms, TagPolicyURI, TagFeatures}

\* Buffers handed to SubpacketArea::new: what add() calls on an empty area
\* produce for one small subpacket, four large ones and one sized so that
\* `room` bytes remain below the 65535-byte limit.
BigPacket == [critical |-> FALSE, tag |-> TagPreferredKeyServer, value |-> Fill(16000, 67)]
Rooms == {3, 4, 192, 193, 194}
Prefilled(room) ==
    SubpacketSerialize([critical |-> FALSE, tag |-> TagPreferredSymmetricAlgorithms,
                        value |-> <<1, 2>>])
    \o SubpacketSerialize(BigPacket) \o SubpacketSerialize(BigPacket)
    \o SubpacketSerialize(BigPacket) \o SubpacketSerialize(BigPacket)
    \o SubpacketSerialize([critical |-> FALSE, tag |-> TagPreferredKeyServer,
                           value |-> Fill(U16Max - room - 4 * 16003 - 4 - 3, 68)])

\* Buffers handed to SubpacketArea::new by the packet parser: a record whose
\* length header uses the five-octet form (for a 3-byte and for a 16320-byte
\* body), followed by a one-octet-form record.
WireBuffers ==
    { <<255, 0, 0, 0, 3, TagPreferredSymmetricAlgorithms, 7, 8>> \o <<2, TagFeatures, 1>>,
      <<255, 0, 0, 63, 192, TagPolicyURI>> \o Fill(16319, 254) \o <<2, TagFeatures, 1>> }

IdleArea ==
    /\ data = <<>> /\ parsed = NoValue /\ areaOp = [kind |-> "idle"] /\ areaOps = 0

\* SubpacketArea::empty(), or SubpacketArea::new(data) on a parsed buffer.
InitArea ==
    /\ parsed = NoValue
    /\ \/ /\ data = <<>>
          /\ areaOp = [kind |-> "empty"]
          /\ areaOps = 0
       \/ /\ \E room \in Rooms : data = Prefilled(room)
          /\ areaOp = [kind |-> "new"]
          /\ areaOps = 1
       \/ /\ data \in WireBuffers
          /\ areaOp = [kind |-> "new"]
          /\ areaOps = 1

\* Variant of add that leaves the cache as it is.
AreaAdd_KeepsCache(packet) ==
    /\ areaOps < MaxAreaOps
    /\ UNCHANGED <<lenVars, sigVars, iterVars, expVars, rawVars>>
    /\ areaOps' = areaOps + 1
    /\ \E r \in {AddIn(data, packet)} :
          IF ~r.ok
          THEN /\ areaOp' = [kind |-> "add", packet |-> packet, result |-> "MalformedPacket"]
               /\ UNCHANGED <<data, parsed>>
          ELSE /\ UNCHANGED parsed
               /\ data' = r.data
               /\ areaOp' = [kind |-> "add", packet |-> packet, result |-> "Ok"]

\* SubpacketArea::add
AreaAdd(packet) ==
    /\ areaOps < MaxAreaOps
    /\ UNCHANGED <<lenVars, sigVars, iterVars, expVars, rawVars>>
    /\ areaOps' = areaOps + 1
    /\ \E r \in {AddIn(data, packet)} :
          IF ~r.ok
          THEN /\ areaOp' = [kind |-> "add", packet |-> packet, result |-> "MalformedPacket"]
               /\ UNCHANGED <<data, parsed>>
          ELSE /\ parsed' = NoValue
               /\ data' = r.data
               /\ areaOp' = [kind |-> "add", packet |-> packet, result |-> "Ok"]

\* SubpacketArea::remove_all
AreaRemoveAll(tag) ==
    /\ areaOps < MaxAreaOps
    /\ UNCHANGED <<lenVars, sigVars, iterVars, expVars, rawVars>>
    /\ areaOps' = areaOps + 1
    /\ IF IterPanics(data)
       THEN /\ areaOp' = [kind |-> "remove_all", tag |-> tag, result |-> "panic"]
            /\ UNCHANGED <<data, parsed>>
       ELSE /\ data' = RemoveAllBytes(data, tag)
            /\ parsed' = NoValue
            /\ areaOp' = [kind |-> "remove_all", tag |-> tag, result |-> "Ok",
                          returned |-> data]

\* SubpacketArea::replace
AreaReplace(packet) ==
    /\ areaOps < MaxAreaOps
    /\ UNCHANGED <<lenVars, sigVars, iterVars, expVars, rawVars>>
    /\ areaOps' = areaOps + 1
    /\ IF IterPanics(data)
       THEN /\ areaOp' = [kind |-> "replace", packet |-> packet, result |-> "panic"]
            /\ UNCHANGED <<data, parsed>>
       ELSE \E r \in {ReplaceIn(data, packet)} :
                /\ parsed' = NoValue
                /\ data' = r.data
                /\ areaOp' = [kind |-> "replace", packet |-> packet,
                              result |-> IF r.ok THEN "Ok" ELSE "MalformedPacket"]

\* SubpacketArea::lookup
AreaLookup(tag) ==
    /\ areaOps < MaxAreaOps
    /\ UNCHANGED <<lenVars, sigVars, iterVars, expVars, rawVars>>
    /\ areaOps' = areaOps + 1
    /\ IF ~parsed.some /\ IterPanics(data)
       THEN /\ areaOp' = [kind |-> "lookup", tag |-> tag, result |-> "panic"]
            /\ UNCHANGED <<data, parsed>>
       ELSE /\ parsed' = CacheInit(data, parsed)
            /\ areaOp' = [kind |-> "lookup", tag |-> tag, result |-> "Ok",
                          found |-> LookupIn(data, parsed, tag)]
            /\ UNCHANGED data

IdleSig ==
    /\ builder = NoValue /\ sig = NoValue /\ made = [op |-> "none"]
    /\ now = 0 /\ sigOp = [kind |-> "idle"]

IdleExp == expIn = NoValue /\ expOut = [kind |-> "idle"]

IdleRaw == rawIn = NoValue /\ rawOut = [kind |-> "idle"]

IdleIter ==
    /\ kit = NoValue /\ kitOp = [kind |-> "idle"] /\ yielded = <<>>
    /\ asked = [flags |-> {}, skipped |-> FALSE, revoked |-> <<>>, handles |-> {},
             calls |-> 0]

-----------------------------------------------------------------------------
(* Signatures: types, keys, and the collaborators the signature code calls *)
(* (hash context, Signer, Key::verify, Signature serialization).           *)

\* u16 / u32 in big-endian byte order.
BeU16(n) == <<(n \div 256) % 256, n % 256>>
BeU32(n) == <<(n \div 16777216) % 256, (n \div 65536) % 256,
              (n \div 256) % 256, n % 256>>

\* bytes[from..] (empty when from is past the end).
Tail_(bytes, from) == SubSeq(bytes, from, Len(bytes))

\* The SignatureType variants; Unknown(u) is represented by one variant.
SignatureTypes ==
    {"Binary", "Text", "Standalone", "GenericCertification",
     "PersonaCertification", "CasualCertification", "PositiveCertification",
     "SubkeyBinding", "PrimaryKeyBinding", "DirectKey", "KeyRevocation",
     "SubkeyRevocation", "CertificationRevocation", "Timestamp",
     "Confirmation", "Unknown"}

\* The wire octet of a SignatureType (RFC 4880, 5.2.1); Unknown(119).
TypeOctet(typ) ==
    CASE typ = "Binary" -> 0
      [] typ = "Text" -> 1
      [] typ = "Standalone" -> 2
      [] typ = "GenericCertification" -> 16
      [] typ = "PersonaCertification" -> 17
      [] typ = "CasualCertification" -> 18
      [] typ = "PositiveCertification" -> 19
      [] typ = "SubkeyBinding" -> 24
      [] typ = "PrimaryKeyBinding" -> 25
      [] typ = "DirectKey" -> 31
      [] typ = "KeyRevocation" -> 32
      [] typ = "SubkeyRevocation" -> 40
      [] typ = "CertificationRevocation" -> 48
      [] typ = "Timestamp" -> 64
      [] typ = "Confirmation" -> 80
      [] OTHER -> 119

\* SignatureType::from(u8): unassigned octets become Unknown.
TypeFromOctet(o) ==
    IF \E t \in SignatureTypes : TypeOctet(t) = o
    THEN CHOOSE t \in SignatureTypes : TypeOctet(t) = o
    ELSE "Unknown"

\* Subpacket tags used by the signature code.
TagSignatureCreationTime == 2
TagIssuer == 16
TagKeyFlags == 27
TagEmbeddedSignature == 32
TagIssuerFingerprint == 33
TagKeyExpirationTime == 9

KEY_FLAG_SIGN == 2

\* Keys: an identity, a creation time (seconds) and a public-key algorithm.
PrimaryKey == [id |-> 1, creation_time |-> 10, pk_algo |-> 1]
SubKey     == [id |-> 2, creation_time |-> 12, pk_algo |-> 22]
OtherKey   == [id |-> 3, creation_time |-> 11, pk_algo |-> 22]
Keys == {PrimaryKey, SubKey, OtherKey}

\* Key::keyid (8 octets) and Key::fingerprint (20 octets).
KeyIDBytes(key) == Fill(7, 0) \o <<key.id>>
FingerprintBytes(key) == Fill(19, 0) \o <<key.id>>

\* HashAlgorithm::default() (SHA512).
DefaultHashAlgo == 10

\* hash::Context: update appends to the preimage; the digest of an ideal
\* (collision-free) hash is determined by, and determines, algorithm and
\* preimage.
Digest(hash_algo, preimage) == <<hash_algo>> \o preimage

\* Signer::sign: the signature value binds the signing key and the digest.
SignerSign(key, hash_algo, digest) == <<key.id>> \o digest

\* Key::verify: the cryptographic check of the mpis against key and digest.
KeyVerify(key, s, digest) ==
    IF s.mpis = SignerSign(key, s.hash_algo, digest)
    THEN "Ok" ELSE "BadSignature"

\* Signature::hash / SignatureBuilder::hash: the signature fields and the
\* hashed area enter the digest; the unhashed area does not.
SigHash(f) ==
    <<4, TypeOctet(f.typ), f.pk_algo, f.hash_algo>>
        \o BeU16(Len(f.hashed)) \o f.hashed

\* Key::hash, UserID::hash, UserAttribute::hash.
KeyHash(key) == <<153, key.id>>
UserIDHash(userid) == <<180>> \o userid
UserAttributeHash(ua) == <<209>> \o ua

\* The preimage constructions of the signature classes.
hash_standalone(f) == Digest(f.hash_algo, SigHash(f))
hash_direct_key(f, pk) == Digest(f.hash_algo, KeyHash(pk) \o SigHash(f))
hash_subkey_binding(f, pk, subkey) ==
    Digest(f.hash_algo, KeyHash(pk) \o KeyHash(subkey) \o SigHash(f))
hash_primary_key_binding(f, pk, subkey) == hash_subkey_binding(f, pk, subkey)
hash_userid_binding(f, pk, userid) ==
    Digest(f.hash_algo, KeyHash(pk) \o UserIDHash(userid) \o SigHash(f))
hash_user_attribute_binding(f, pk, ua) ==
    Digest(f.hash_algo, KeyHash(pk) \o UserAttributeHash(ua) \o SigHash(f))
hash_message(f, msg) == Digest(f.hash_algo, msg \o SigHash(f))

-----------------------------------------------------------------------------
(* Signature4, its wire form, and the subpacket accessors.                 *)

\* Signature4::new
Signature4New(typ, pk_algo, hash_algo, hashed_area, unhashed_area, digest_prefix, mpis) ==
    [some |-> TRUE, typ |-> typ, pk_algo |-> pk_algo, hash_algo |-> hash_algo,
     hashed |-> hashed_area, unhashed |-> unhashed_area,
     digest_prefix |-> digest_prefix, mpis |-> mpis,
     computed_digest |-> NoValue, level |-> 0]

\* The body of a version 4 signature packet, as embedded in a subpacket.
SerializeNaked(s) ==
    <<4, TypeOctet(s.typ), s.pk_algo, s.hash_algo>>
        \o BeU16(Len(s.hashed)) \o s.hashed
        \o BeU16(Len(s.unhashed)) \o s.unhashed
        \o s.digest_prefix \o s.mpis

\* Signature::parse_naked: None unless the bytes hold a version 4 body.
ParseNaked(v) ==
    IF Len(v) < 6 \/ v[1] # 4 THEN NoValue
    ELSE LET hl == v[5] * 256 + v[6] IN
         IF Len(v) < 8 + hl THEN NoValue
         ELSE LET ul == v[7 + hl] * 256 + v[8 + hl] IN
              IF Len(v) < 10 + hl + ul THEN NoValue
              ELSE Signature4New(TypeFromOctet(v[2]), v[3], v[4],
                                 SubSeq(v, 7, 6 + hl),
                                 SubSeq(v, 9 + hl, 8 + hl + ul),
                                 SubSeq(v, 9 + hl + ul, 10 + hl + ul),
                                 Tail_(v, 11 + hl + ul))

\* Variant of Signature::subpacket that falls back to the unhashed area for
\* every tag.
SigSubpacket_AnyTag(f, tag) ==
    The({IF sb.some THEN sb
         ELSE LookupIn(f.unhashed, NoValue, tag) :
            sb \in {LookupIn(f.hashed, NoValue, tag)}})

\* Signature::subpacket: the hashed area first; the unhashed area only for
\* Issuer and EmbeddedSignature.  Every mutation of an area invalidates its
\* cache, so lookup sees the cache that cache_init builds from the bytes.
SigSubpacket(f, tag) ==
    The({IF sb.some THEN sb
         ELSE IF ~(tag = TagIssuer \/ tag = TagEmbeddedSignature) THEN NoValue
         ELSE LookupIn(f.unhashed, NoValue, tag) :
            sb \in {LookupIn(f.hashed, NoValue, tag)}})

\* Signature::signature_creation_time
signature_creation_time(f) ==
    The({IF sb.some THEN from_be_u32(sb.value) ELSE NoValue :
            sb \in {SigSubpacket(f, TagSignatureCreationTime)}})

\* Signature::key_flags: the stored flags, or the default (no flag set).
key_flags(f) ==
    The({IF sb.some THEN sb.value ELSE <<0>> :
            sb \in {SigSubpacket(f, TagKeyFlags)}})

\* KeyFlags::can_sign
can_sign(flags) ==
    IF Len(flags) >= 1 THEN (flags[1] \div KEY_FLAG_SIGN) % 2 = 1 ELSE FALSE

\* Signature::embedded_signature
embedded_signature(f) ==
    The({IF sb.some THEN ParseNaked(sb.value) ELSE NoValue :
            sb \in {SigSubpacket(f, TagEmbeddedSignature)}})

\* Signature::issuer
issuer(f) ==
    The({IF sb.some THEN [some |-> TRUE, v |-> sb.value] ELSE NoValue :
            sb \in {SigSubpacket(f, TagIssuer)}})

\* Signature::issuer_fingerprint: the value must carry key version 4.
issuer_fingerprint(f) ==
    The({IF sb.some /\ Len(sb.value) >= 1 /\ sb.value[1] = 4
         THEN [some |-> TRUE, v |-> Tail_(sb.value, 2)] ELSE NoValue :
            sb \in {SigSubpacket(f, TagIssuerFingerprint)}})

-----------------------------------------------------------------------------
(* SignatureBuilder.                                                       *)

\* SignatureBuilder::new
BuilderNew(typ) ==
    [some |-> TRUE, overrode_creation_time |-> FALSE,
     original_creation_time |-> NoValue,
     typ |-> typ, pk_algo |-> 0, hash_algo |-> DefaultHashAlgo,
     hashed |-> <<>>, unhashed |-> <<>>]

\* self.hashed_area.replace(Subpacket::new(value, true)): [ok, b].
HashedReplace(b, tag, value) ==
    The({[ok |-> r.ok, b |-> [b EXCEPT !.hashed = r.data]] :
            r \in {ReplaceIn(b.hashed, [critical |-> TRUE, tag |-> tag, value |-> value])}})

\* set_signature_creation_time: the caller's time overrides the stamp.
set_signature_creation_time(b, t) ==
    HashedReplace([b EXCEPT !.overrode_creation_time = TRUE],
                  TagSignatureCreationTime, BeU32(t))

set_issuer(b, key) == HashedReplace(b, TagIssuer, KeyIDBytes(key))

set_issuer_fingerprint(b, key) ==
    HashedReplace(b, TagIssuerFingerprint, <<4>> \o FingerprintBytes(key))

set_key_flags(b, flags) == HashedReplace(b, TagKeyFlags, flags)

set_embedded_signature(b, s) ==
    HashedReplace(b, TagEmbeddedSignature, SerializeNaked(s))

\* The three remove_all calls From<Signature4> makes on one area.
StripStamps(d) ==
    RemoveAllBytes(RemoveAllBytes(RemoveAllBytes(d, TagSignatureCreationTime),
                                  TagIssuer),
                   TagIssuerFingerprint)

\* impl From<Signature4> for SignatureBuilder
FromSignature4(s) ==
    [some |-> TRUE, overrode_creation_time |-> FALSE,
     original_creation_time |-> signature_creation_time(s),
     typ |-> s.typ, pk_algo |-> s.pk_algo, hash_algo |-> s.hash_algo,
     hashed |-> StripStamps(s.hashed), unhashed |-> StripStamps(s.unhashed)]

\* The records of recs serialized one after the other.
RECURSIVE SerializeAll(_)
SerializeAll(recs) ==
    IF recs = <<>> THEN <<>>
    ELSE SubpacketSerialize(Head(recs)) \o SerializeAll(Tail(recs))

\* SubpacketArea::sort: the subpackets ordered by tag octet, keeping the
\* order of subpackets that share a tag.
RECURSIVE SortByTag(_)
SortByTag(recs) ==
    IF recs = <<>> THEN <<>>
    ELSE LET least == CHOOSE t \in {recs[i].tag : i \in DOMAIN recs} :
                         \A i \in DOMAIN recs : t <= recs[i].tag
         IN  SelectSeq(recs, LAMBDA r : r.tag = least)
                 \o SortByTag(SelectSeq(recs, LAMBDA r : r.tag # least))

AreaSort(d) == SerializeAll(SortByTag(AreaIter(d)))

\* pre_sign, step by step.  Each step takes the [ok, b] result of the one
\* before; an Err is handed through (the ? operator).

\* Variant that stamps the current time whether or not the caller set one.
PreSignStamp_Always(b, signer, time) ==
    set_signature_creation_time([b EXCEPT !.pk_algo = signer.pk_algo], time)

\* self.pk_algo = signer.public().pk_algo(); stamp the creation time unless
\* the caller overrode it.
PreSignStamp(b, signer, time) ==
    IF ~b.overrode_creation_time
    THEN set_signature_creation_time([b EXCEPT !.pk_algo = signer.pk_algo], time)
    ELSE [ok |-> TRUE, b |-> [b EXCEPT !.pk_algo = signer.pk_algo]]

\* set_issuer(..)?.set_issuer_fingerprint(..)?
PreSignSetIssuers(b, signer) ==
    The({IF ~i.ok THEN i ELSE set_issuer_fingerprint(i.b, signer) :
                       i \in {set_issuer(b, signer)}})

\* Make sure we have an issuer packet.
PreSignIssuers(r, signer) ==
    IF ~r.ok THEN r
    ELSE IF ~issuer(r.b).some /\ ~issuer_fingerprint(r.b).some
         THEN PreSignSetIssuers(r.b, signer)
         ELSE r

\* self.sort()
PreSignSort(r) ==
    IF ~r.ok THEN r
    ELSE [ok |-> TRUE,
          b |-> [r.b EXCEPT !.hashed = AreaSort(r.b.hashed),
                            !.unhashed = AreaSort(r.b.unhashed)]]

\* Variant of pre_sign that never stamps the creation time.
pre_sign_NoStamp(b, signer, time) ==
    The({PreSignSort(r3) : r3 \in
            {PreSignIssuers(r2, signer) : r2 \in
                {[ok |-> TRUE, b |-> [b EXCEPT !.pk_algo = signer.pk_algo]]}}})

\* SignatureBuilder::pre_sign at time `time`: [ok, b].  (The singleton sets
\* bind the result of each step for the next.)
pre_sign(b, signer, time) ==
    The({PreSignSort(r3) : r3 \in
            {PreSignIssuers(r2, signer) : r2 \in
                {PreSignStamp(b, signer, time)}}})

\* SignatureBuilder::sign
sign(b, signer, digest) ==
    [some |-> TRUE, typ |-> b.typ, pk_algo |-> b.pk_algo,
     hash_algo |-> b.hash_algo, hashed |-> b.hashed, unhashed |-> b.unhashed,
     digest_prefix |-> <<digest[1], digest[2]>>,
     mpis |-> SignerSign(signer, b.hash_algo, digest),
     computed_digest |-> [some |-> TRUE, v |-> digest], level |-> 0]

-----------------------------------------------------------------------------
(* The typed signing operations.  Each returns                             *)
(*   [result, errtyp, pre_sign, signed, sig]                               *)
(* where pre_sign / signed tell whether pre_sign ran and whether the       *)
(* signer's sign was invoked before the operation returned.                *)

SignUnsupported(typ) ==
    [result |-> "UnsupportedSignatureType", errtyp |-> typ,
     pre_sign |-> FALSE, signed |-> FALSE, sig |-> NoValue]

\* self = self.pre_sign(signer)?; ...; self.sign(signer, digest): r is the
\* result of pre_sign, digest the digest computed from the finalized builder.
SignFinish(r, signer, digest) ==
    IF ~r.ok
    THEN [result |-> "MalformedPacket", errtyp |-> "",
          pre_sign |-> TRUE, signed |-> FALSE, sig |-> NoValue]
    ELSE [result |-> "Ok", errtyp |-> "",
          pre_sign |-> TRUE, signed |-> TRUE,
          sig |-> sign(r.b, signer, digest)]

\* Variant of sign_standalone that finalizes the builder before it looks
\* at the declared type.
sign_standalone_CheckLast(b, signer, time) ==
    The({IF b.typ \notin {"Standalone", "Unknown"}
                    THEN [SignUnsupported(b.typ) EXCEPT !.pre_sign = TRUE]
                    ELSE SignFinish(r, signer, hash_standalone(r.b)) :
                        r \in {pre_sign(b, signer, time)}})

sign_standalone(b, signer, time) ==
    IF b.typ \notin {"Standalone", "Unknown"}
    THEN SignUnsupported(b.typ)
    ELSE The({SignFinish(r, signer, hash_standalone(r.b)) :
                            r \in {pre_sign(b, signer, time)}})

sign_timestamp(b, signer, time) ==
    IF b.typ \notin {"Timestamp", "Unknown"}
    THEN SignUnsupported(b.typ)
    ELSE The({SignFinish(r, signer, hash_standalone(r.b)) :
                            r \in {pre_sign(b, signer, time)}})

sign_direct_key(b, signer, pk, time) ==
    IF b.typ \notin {"DirectKey", "KeyRevocation", "Unknown"}
    THEN SignUnsupported(b.typ)
    ELSE The({SignFinish(r, signer, hash_direct_key(r.b, pk)) :
                            r \in {pre_sign(b, signer, time)}})

sign_userid_binding(b, signer, key, userid, time) ==
    IF b.typ \notin {"GenericCertification", "PersonaCertification",
                     "CasualCertification", "PositiveCertification",
                     "CertificationRevocation", "Unknown"}
    THEN SignUnsupported(b.typ)
    ELSE The({SignFinish(r, signer, hash_userid_binding(r.b, key, userid)) :
                            r \in {pre_sign(b, signer, time)}})

sign_subkey_binding(b, signer, primary, subkey, time) ==
    IF b.typ \notin {"SubkeyBinding", "SubkeyRevocation", "Unknown"}
    THEN SignUnsupported(b.typ)
    ELSE The({SignFinish(r, signer, hash_subkey_binding(r.b, primary, subkey)) :
                            r \in {pre_sign(b, signer, time)}})

sign_primary_key_binding(b, subkey_signer, primary, subkey, time) ==
    IF b.typ \notin {"PrimaryKeyBinding", "Unknown"}
    THEN SignUnsupported(b.typ)
    ELSE The({SignFinish(r, subkey_signer, hash_primary_key_binding(r.b, primary, subkey)) :
                            r \in {pre_sign(b, subkey_signer, time)}})

sign_user_attribute_binding(b, signer, key, ua, time) ==
    IF b.typ \notin {"GenericCertification", "PersonaCertification",
                     "CasualCertification", "PositiveCertification",
                     "CertificationRevocation", "Unknown"}
    THEN SignUnsupported(b.typ)
    ELSE The({SignFinish(r, signer, hash_user_attribute_binding(r.b, key, ua)) :
                            r \in {pre_sign(b, signer, time)}})

\* sign_hash: no type check; hash is a context [algo, preimage] that the
\* caller has fed already.
sign_hash(b, signer, hash, time) ==
    The({SignFinish(r, signer, Digest(hash.algo, hash.preimage \o SigHash(r.b))) :
                            r \in {pre_sign([b EXCEPT !.hash_algo = hash.algo], signer, time)}})

sign_message(b, signer, msg, time) ==
    IF b.typ \notin {"Binary", "Text", "Unknown"}
    THEN SignUnsupported(b.typ)
    ELSE The({SignFinish(r, signer, hash_message(r.b, msg)) :
                            r \in {pre_sign(b, signer, time)}})

-----------------------------------------------------------------------------
(* The verification operations.  Each returns [result, errtyp, crypto]     *)
(* where crypto lists the Key::verify calls made, in order.                *)

VerifyUnsupported(typ) ==
    [result |-> "UnsupportedSignatureType", errtyp |-> typ, crypto |-> <<>>]

VerifyBad == [result |-> "BadSignature", errtyp |-> "", crypto |-> <<>>]

\* Variant of verify_digest that leaves the time check to the caller.
verify_digest_NoTimeCheck(s, key, digest) ==
    [result |-> KeyVerify(key, s, digest), errtyp |-> "",
     crypto |-> <<[key |-> key.id, digest |-> digest]>>]

\* Signature::verify_digest
verify_digest(s, key, digest) ==
    The({IF creation_time.some
         THEN IF creation_time.v < key.creation_time
              THEN VerifyBad
              ELSE [result |-> KeyVerify(key, s, digest), errtyp |-> "",
                    crypto |-> <<[key |-> key.id, digest |-> digest]>>]
         ELSE VerifyBad :
            creation_time \in {signature_creation_time(s)}})

\* Signature::verify: uses the digest cached by sign.
verify(s, key) ==
    IF ~(s.typ = "Binary" \/ s.typ = "Text")
    THEN VerifyUnsupported(s.typ)
    ELSE IF s.computed_digest.some
         THEN verify_digest(s, key, s.computed_digest.v)
         ELSE VerifyBad

\* Variant of verify_standalone with the accepted types of sign_standalone.
verify_standalone_Mirror(s, key) ==
    IF s.typ \notin {"Standalone", "Unknown"} THEN VerifyUnsupported(s.typ)
    ELSE verify_digest(s, key, hash_standalone(s))

verify_standalone(s, key) ==
    IF s.typ # "Standalone" THEN VerifyUnsupported(s.typ)
    ELSE verify_digest(s, key, hash_standalone(s))

verify_timestamp(s, key) ==
    IF s.typ # "Timestamp" THEN VerifyUnsupported(s.typ)
    ELSE verify_digest(s, key, hash_standalone(s))

verify_direct_key(s, signer, pk) ==
    IF s.typ # "DirectKey" THEN VerifyUnsupported(s.typ)
    ELSE verify_digest(s, signer, hash_direct_key(s, pk))

verify_primary_key_revocation(s, signer, pk) ==
    IF s.typ # "KeyRevocation" THEN VerifyUnsupported(s.typ)
    ELSE verify_digest(s, signer, hash_direct_key(s, pk))

verify_primary_key_binding(s, pk, subkey) ==
    IF s.typ # "PrimaryKeyBinding" THEN VerifyUnsupported(s.typ)
    ELSE verify_digest(s, subkey, hash_primary_key_binding(s, pk, subkey))

\* Variant of verify_subkey_binding that never looks for the back signature.
verify_subkey_binding_NoBacksig(s, signer, pk, subkey) ==
    IF s.typ # "SubkeyBinding" THEN VerifyUnsupported(s.typ)
    ELSE verify_digest(s, signer, hash_subkey_binding(s, pk, subkey))

verify_subkey_binding(s, signer, pk, subkey) ==
    IF s.typ # "SubkeyBinding" THEN VerifyUnsupported(s.typ)
    ELSE The({IF r.result # "Ok" THEN r
              ELSE IF can_sign(key_flags(s))
                   THEN The({IF backsig.some
                             THEN The({[r2 EXCEPT !.crypto = r.crypto \o r2.crypto] :
                                         r2 \in {verify_primary_key_binding(backsig, pk, subkey)}})
                             ELSE [VerifyBad EXCEPT !.crypto = r.crypto] :
                                backsig \in {embedded_signature(s)}})
                   ELSE r :
                 r \in {verify_digest(s, signer, hash_subkey_binding(s, pk, subkey))}})

verify_subkey_revocation(s, signer, pk, subkey) ==
    IF s.typ # "SubkeyRevocation" THEN VerifyUnsupported(s.typ)
    ELSE verify_digest(s, signer, hash_subkey_binding(s, pk, subkey))

verify_userid_binding(s, signer, pk, userid) ==
    IF ~(s.typ = "GenericCertification" \/ s.typ = "PersonaCertification"
         \/ s.typ = "CasualCertification" \/ s.typ = "PositiveCertification")
    THEN VerifyUnsupported(s.typ)
    ELSE verify_digest(s, signer, hash_userid_binding(s, pk, userid))

verify_userid_revocation(s, signer, pk, userid) ==
    IF s.typ # "CertificationRevocation" THEN VerifyUnsupported(s.typ)
    ELSE verify_digest(s, signer, hash_userid_binding(s, pk, userid))

verify_user_attribute_binding(s, signer, pk, ua) ==
    IF ~(s.typ = "GenericCertification" \/ s.typ = "PersonaCertification"
         \/ s.typ = "CasualCertification" \/ s.typ = "PositiveCertification")
    THEN VerifyUnsupported(s.typ)
    ELSE verify_digest(s, signer, hash_user_attribute_binding(s, pk, ua))

verify_user_attribute_revocation(s, signer, pk, ua) ==
    IF s.typ # "CertificationRevocation" THEN VerifyUnsupported(s.typ)
    ELSE verify_digest(s, signer, hash_user_attribute_binding(s, pk, ua))

verify_message(s, signer, msg) ==
    IF s.typ # "Binary" /\ s.typ # "Text" THEN VerifyUnsupported(s.typ)
    ELSE verify_digest(s, signer, hash_message(s, msg))

-----------------------------------------------------------------------------
(* Comparing and normalizing signatures.                                   *)

\* SignatureFields::version: Signature4::new and SignatureBuilder::new fix it.
Version(s) == 4

\* Variant of normalized_eq that also compares the unhashed areas.
normalized_eq_WithUnhashed(a, b) ==
    /\ a.mpis = b.mpis
    /\ Version(a) = Version(b)
    /\ a.typ = b.typ
    /\ a.pk_algo = b.pk_algo
    /\ a.hash_algo = b.hash_algo
    /\ a.hashed = b.hashed
    /\ a.unhashed = b.unhashed
    /\ a.digest_prefix = b.digest_prefix

\* Signature::normalized_eq
normalized_eq(a, b) ==
    /\ a.mpis = b.mpis
    /\ Version(a) = Version(b)
    /\ a.typ = b.typ
    /\ a.pk_algo = b.pk_algo
    /\ a.hash_algo = b.hash_algo
    /\ a.hashed = b.hashed
    /\ a.digest_prefix = b.digest_prefix

\* The filter_map of get_issuers applied to the raw subpackets recs: the
\* KeyHandle of every subpacket whose value decodes as Issuer or as
\* IssuerFingerprint (From<SubpacketRaw>: any payload is a key id; a
\* fingerprint needs the version octet 4), in order.
RECURSIVE IssuerHandles(_)
IssuerHandles(recs) ==
    IF recs = <<>> THEN <<>>
    ELSE (IF Head(recs).tag = TagIssuer
          THEN <<[kind |-> "KeyID", v |-> Head(recs).value]>>
          ELSE IF Head(recs).tag = TagIssuerFingerprint
                  /\ Len(Head(recs).value) >= 1 /\ Head(recs).value[1] = 4
               THEN <<[kind |-> "Fingerprint", v |-> Tail_(Head(recs).value, 2)]>>
               ELSE <<>>)
         \o IssuerHandles(Tail(recs))

\* The comparator handed to sort_by.
IssuerCmp(a, b) ==
    IF a.kind = b.kind THEN "Equal"
    ELSE IF a.kind = "KeyID" THEN "Greater" ELSE "Less"

\* sort_by (a stable sort): x goes after every element that is not greater.
RECURSIVE InsertStable(_, _)
InsertStable(sorted, x) ==
    IF sorted = <<>> THEN <<x>>
    ELSE IF IssuerCmp(Head(sorted), x) = "Greater" THEN <<x>> \o sorted
    ELSE <<Head(sorted)>> \o InsertStable(Tail(sorted), x)
RECURSIVE SortIssuers(_)
SortIssuers(handles) ==
    IF handles = <<>> THEN <<>>
    ELSE InsertStable(SortIssuers(SubSeq(handles, 1, Len(handles) - 1)),
                      handles[Len(handles)])

\* Variant of get_issuers that returns the handles as collected.
get_issuers_Unsorted(s) ==
    IssuerHandles(AreaIter(s.hashed) \o AreaIter(s.unhashed))

\* Signature::get_issuers
get_issuers(s) ==
    SortIssuers(IssuerHandles(AreaIter(s.hashed) \o AreaIter(s.unhashed)))

\* The tags normalize keeps in the unhashed area.
NormalizeKeeps == {TagIssuer, TagIssuerFingerprint, TagEmbeddedSignature}

\* The loop of normalize: area.add(spkt.clone()) for every subpacket of recs
\* with one of the three tags, in order; ok = FALSE when an add fails (the
\* expect panics).
RECURSIVE AddKept(_, _)
AddKept(area, recs) ==
    IF recs = <<>> \/ ~area.ok THEN area
    ELSE AddKept(IF Head(recs).tag \in NormalizeKeeps
                 THEN AddIn(area.data, [critical |-> Head(recs).critical,
                                        tag |-> Head(recs).tag,
                                        value |-> Head(recs).value])
                 ELSE area,
                 Tail(recs))

\* Variant of normalize that returns the clone as it is.
normalize_CloneOnly(s) == [ok |-> TRUE, sig |-> s]

\* Signature::normalize: [ok, sig].
normalize(s) ==
    The({[ok |-> area.ok, sig |-> [s EXCEPT !.unhashed = area.data]] :
            area \in {AddKept([ok |-> TRUE, data |-> <<>>], AreaIter(s.unhashed))}})

\* PartialEq and Hash of the two subpacket areas of a signature: the
\* unhashed area takes no part in either.
SubpacketAreasEq(a, b) == a.hashed = b.hashed
SubpacketAreasHash(s) == s.hashed

\* #[derive(Hash, PartialEq, Eq)] on SignatureFields: field by field.
SignatureFieldsEq(a, b) ==
    /\ Version(a) = Version(b)
    /\ a.typ = b.typ
    /\ a.pk_algo = b.pk_algo
    /\ a.hash_algo = b.hash_algo
    /\ SubpacketAreasEq(a, b)
SignatureFieldsHash(s) ==
    <<Version(s), s.typ, s.pk_algo, s.hash_algo, SubpacketAreasHash(s)>>

\* Variant comparing every field of Signature4, the cached ones included.
Signature4Eq_Derived(a, b) ==
    /\ a.mpis = b.mpis
    /\ SignatureFieldsEq(a, b)
    /\ a.digest_prefix = b.digest_prefix
    /\ a.computed_digest = b.computed_digest
    /\ a.level = b.level

\* impl PartialEq for Signature4
Signature4Eq(a, b) ==
    /\ a.mpis = b.mpis
    /\ SignatureFieldsEq(a, b)
    /\ a.digest_prefix = b.digest_prefix

\* impl Hash for Signature4: what is fed to the hasher, in order.
Signature4Hash(s) == <<s.mpis, SignatureFieldsHash(s), s.digest_prefix>>

-----------------------------------------------------------------------------
(* Signing and verifying as actions.                                       *)

\* The clock starts after the primary key was made and runs to MaxNow.
StartNow == PrimaryKey.creation_time + 1
MaxNow == 12

\* Inputs of the operations.
Signers == {PrimaryKey, SubKey}
UserIDs == {<<97>>}
UserAttributes == {<<1, 7>>}
Messages == {<<>>, <<72, 105>>}
OverrideTimes == {9, 12}
HashContexts == {[algo |-> 8, preimage |-> <<72, 105>>]}

\* SignatureBuilder::new
NewBuilder(typ) ==
    /\ builder = NoValue /\ sig = NoValue
    /\ builder' = BuilderNew(typ)
    /\ sigOp' = [kind |-> "new", op |-> "new", typ |-> typ]
    /\ UNCHANGED <<sig, made, now>>
    /\ UNCHANGED <<lenVars, areaVars, iterVars, expVars, rawVars>>

\* builder.set_signature_creation_time(t)
SetSignatureCreationTime(t) ==
    /\ builder.some
    /\ \E r \in {set_signature_creation_time(builder, t)} :
       /\ builder' = (IF r.ok THEN r.b ELSE NoValue)
       /\ sigOp' = [kind |-> "set", op |-> "set_signature_creation_time",
                    typ |-> builder.typ]
    /\ UNCHANGED <<sig, made, now>>
    /\ UNCHANGED <<lenVars, areaVars, iterVars, expVars, rawVars>>

\* builder.set_issuer(key.keyid())
SetIssuer(key) ==
    /\ builder.some
    /\ \E r \in {set_issuer(builder, key)} :
       /\ builder' = (IF r.ok THEN r.b ELSE NoValue)
       /\ sigOp' = [kind |-> "set", op |-> "set_issuer", typ |-> builder.typ]
    /\ UNCHANGED <<sig, made, now>>
    /\ UNCHANGED <<lenVars, areaVars, iterVars, expVars, rawVars>>

\* builder.set_issuer_fingerprint(key.fingerprint())
SetIssuerFingerprint(key) ==
    /\ builder.some
    /\ \E r \in {set_issuer_fingerprint(builder, key)} :
       /\ builder' = (IF r.ok THEN r.b ELSE NoValue)
       /\ sigOp' = [kind |-> "set", op |-> "set_issuer_fingerprint",
                    typ |-> builder.typ]
    /\ UNCHANGED <<sig, made, now>>
    /\ UNCHANGED <<lenVars, areaVars, iterVars, expVars, rawVars>>

\* SignatureBuilder::from(sig): the Signature at hand is consumed.
FromSignature ==
    /\ sig.some /\ builder = NoValue
    /\ builder' = FromSignature4(sig)
    /\ sig' = NoValue
    /\ sigOp' = [kind |-> "from", op |-> "from", typ |-> sig.typ, source |-> sig]
    /\ UNCHANGED <<made, now>>
    /\ UNCHANGED <<lenVars, areaVars, iterVars, expVars, rawVars>>

\* sig.normalized_eq(&other)
NormalizedEq(other) ==
    /\ sig.some
    /\ sigOp' = [kind |-> "compare", op |-> "normalized_eq", other |-> other,
                 result |-> normalized_eq(sig, other)]
    /\ UNCHANGED <<builder, sig, made, now>>
    /\ UNCHANGED <<lenVars, areaVars, iterVars, expVars, rawVars>>

\* sig == other, and the hashes of both.
Eq(other) ==
    /\ sig.some
    /\ sigOp' = [kind |-> "compare", op |-> "eq", other |-> other,
                 result |-> Signature4Eq(sig, other),
                 hash_self |-> Signature4Hash(sig),
                 hash_other |-> Signature4Hash(other)]
    /\ UNCHANGED <<builder, sig, made, now>>
    /\ UNCHANGED <<lenVars, areaVars, iterVars, expVars, rawVars>>

\* sig = sig.normalize()
Normalize ==
    /\ sig.some
    /\ \E r \in {normalize(sig)} :
       /\ sig' = (IF r.ok THEN r.sig ELSE NoValue)
       /\ sigOp' = [kind |-> "normalize", op |-> "normalize", source |-> sig,
                    result |-> IF r.ok THEN "Ok" ELSE "panic"]
    /\ UNCHANGED <<builder, made, now>>
    /\ UNCHANGED <<lenVars, areaVars, iterVars, expVars, rawVars>>

\* sig.get_issuers()
GetIssuers ==
    /\ sig.some
    /\ sigOp' = [kind |-> "issuers", op |-> "get_issuers",
                 result |-> get_issuers(sig)]
    /\ UNCHANGED <<builder, sig, made, now>>
    /\ UNCHANGED <<lenVars, areaVars, iterVars, expVars, rawVars>>

\* The common frame of the sign_* calls: the builder is consumed, and the
\* returned Signature (if any) is kept together with the call that made it.
SignStep(op, r, signer, msg) ==
    /\ builder' = NoValue
    /\ sig' = r.sig
    /\ made' = [op |-> op, signer |-> signer, msg |-> msg, at |-> now,
                overrode |-> builder.overrode_creation_time]
    /\ sigOp' = [kind |-> "sign", op |-> op, typ |-> builder.typ,
                 result |-> r.result, errtyp |-> r.errtyp,
                 pre_sign |-> r.pre_sign, signed |-> r.signed]
    /\ UNCHANGED now
    /\ UNCHANGED <<lenVars, areaVars, iterVars, expVars, rawVars>>

SignStandalone(signer) ==
    /\ builder.some
    /\ SignStep("sign_standalone", sign_standalone(builder, signer, now),
                signer, <<>>)

SignTimestamp(signer) ==
    /\ builder.some
    /\ SignStep("sign_timestamp", sign_timestamp(builder, signer, now),
                signer, <<>>)

SignDirectKey(signer) ==
    /\ builder.some
    /\ SignStep("sign_direct_key",
                sign_direct_key(builder, signer, PrimaryKey, now), signer, <<>>)

SignUseridBinding(signer, userid) ==
    /\ builder.some
    /\ SignStep("sign_userid_binding",
                sign_userid_binding(builder, signer, PrimaryKey, userid, now),
                signer, userid)

SignSubkeyBinding(signer) ==
    /\ builder.some
    /\ SignStep("sign_subkey_binding",
                sign_subkey_binding(builder, signer, PrimaryKey, SubKey, now),
                signer, <<>>)

SignPrimaryKeyBinding(subkey_signer) ==
    /\ builder.some
    /\ SignStep("sign_primary_key_binding",
                sign_primary_key_binding(builder, subkey_signer, PrimaryKey,
                                         SubKey, now),
                subkey_signer, <<>>)

SignUserAttributeBinding(signer, ua) ==
    /\ builder.some
    /\ SignStep("sign_user_attribute_binding",
                sign_user_attribute_binding(builder, signer, PrimaryKey, ua, now),
                signer, ua)

SignHash(signer, hash) ==
    /\ builder.some
    /\ SignStep("sign_hash", sign_hash(builder, signer, hash, now),
                signer, hash.preimage)

SignMessage(signer, msg) ==
    /\ builder.some
    /\ SignStep("sign_message", sign_message(builder, signer, msg, now),
                signer, msg)

\* Time passes while the builder is set up (only pre_sign reads the clock).
Tick ==
    /\ builder.some
    /\ now < MaxNow
    /\ now' = now + 1
    /\ UNCHANGED <<builder, sig, made, sigOp>>
    /\ UNCHANGED <<lenVars, areaVars, iterVars, expVars, rawVars>>

\* The common frame of the verify_* calls on the Signature at hand: key is
\* the key whose creation time and Key::verify the call consults, subkey
\* the subkey argument, digest the digest the call computes (or is given).
\* The primary key argument is always PrimaryKey.
VerifyStep(op, r, key, subkey, digest) ==
    /\ sigOp' = [kind |-> "verify", op |-> op, key |-> key, subkey |-> subkey,
                 digest |-> digest,
                 result |-> r.result, errtyp |-> r.errtyp, crypto |-> r.crypto]
    /\ UNCHANGED <<builder, sig, made, now>>
    /\ UNCHANGED <<lenVars, areaVars, iterVars, expVars, rawVars>>

\* One byte of a digest flipped (digest[i] ^= 0xff).
Flip(digest, i) == [digest EXCEPT ![i] = 255 - digest[i]]

\* Digests handed to verify_digest: the digest of the signature alone or
\* with a message, and each with its first or last byte flipped.
DigestInputs(s) ==
    LET base == {hash_message(s, msg) : msg \in Messages}
    IN  base \cup {Flip(d, 1) : d \in base} \cup {Flip(d, Len(d)) : d \in base}

VerifyDigest(key) ==
    /\ sig.some
    /\ \E digest \in DigestInputs(sig) :
           VerifyStep("verify_digest", verify_digest(sig, key, digest),
                      key, SubKey, digest)

Verify(key) ==
    /\ sig.some
    /\ VerifyStep("verify", verify(sig, key), key, SubKey,
                  IF sig.computed_digest.some THEN sig.computed_digest.v ELSE <<>>)

VerifyStandalone(key) ==
    /\ sig.some
    /\ VerifyStep("verify_standalone", verify_standalone(sig, key), key, SubKey,
                  hash_standalone(sig))

VerifyTimestamp(key) ==
    /\ sig.some
    /\ VerifyStep("verify_timestamp", verify_timestamp(sig, key), key, SubKey,
                  hash_standalone(sig))

VerifyDirectKey(signer) ==
    /\ sig.some
    /\ VerifyStep("verify_direct_key", verify_direct_key(sig, signer, PrimaryKey),
                  signer, SubKey, hash_direct_key(sig, PrimaryKey))

VerifyPrimaryKeyRevocation(signer) ==
    /\ sig.some
    /\ VerifyStep("verify_primary_key_revocation",
                  verify_primary_key_revocation(sig, signer, PrimaryKey),
                  signer, SubKey, hash_direct_key(sig, PrimaryKey))

VerifySubkeyBinding(signer, subkey) ==
    /\ sig.some
    /\ VerifyStep("verify_subkey_binding",
                  verify_subkey_binding(sig, signer, PrimaryKey, subkey),
                  signer, subkey, hash_subkey_binding(sig, PrimaryKey, subkey))

VerifyPrimaryKeyBinding(subkey) ==
    /\ sig.some
    /\ VerifyStep("verify_primary_key_binding",
                  verify_primary_key_binding(sig, PrimaryKey, subkey),
                  subkey, subkey, hash_primary_key_binding(sig, PrimaryKey, subkey))

VerifySubkeyRevocation(signer) ==
    /\ sig.some
    /\ VerifyStep("verify_subkey_revocation",
                  verify_subkey_revocation(sig, signer, PrimaryKey, SubKey),
                  signer, SubKey, hash_subkey_binding(sig, PrimaryKey, SubKey))

VerifyUseridBinding(signer, userid) ==
    /\ sig.some
    /\ VerifyStep("verify_userid_binding",
                  verify_userid_binding(sig, signer, PrimaryKey, userid),
                  signer, SubKey, hash_userid_binding(sig, PrimaryKey, userid))

VerifyUseridRevocation(signer, userid) ==
    /\ sig.some
    /\ VerifyStep("verify_userid_revocation",
                  verify_userid_revocation(sig, signer, PrimaryKey, userid),
                  signer, SubKey, hash_userid_binding(sig, PrimaryKey, userid))

VerifyUserAttributeBinding(signer, ua) ==
    /\ sig.some
    /\ VerifyStep("verify_user_attribute_binding",
                  verify_user_attribute_binding(sig, signer, PrimaryKey, ua),
                  signer, SubKey, hash_user_attribute_binding(sig, PrimaryKey, ua))

VerifyUserAttributeRevocation(signer, ua) ==
    /\ sig.some
    /\ VerifyStep("verify_user_attribute_revocation",
                  verify_user_attribute_revocation(sig, signer, PrimaryKey, ua),
                  signer, SubKey, hash_user_attribute_binding(sig, PrimaryKey, ua))

VerifyMessage(signer, msg) ==
    /\ sig.some
    /\ VerifyStep("verify_message", verify_message(sig, signer, msg),
                  signer, SubKey, hash_message(sig, msg))

-----------------------------------------------------------------------------
(* Signatures as they arrive from outside (Signature4::new on parsed       *)
(* fields): any type, any creation time or none, with or without key       *)
(* flags and an embedded signature, signed by some key over some preimage. *)

\* SubpacketArea::new followed by add of each packet.
RECURSIVE AreaOf(_)
AreaOf(packets) ==
    IF packets = <<>> THEN <<>>
    ELSE AddIn(AreaOf(SubSeq(packets, 1, Len(packets) - 1)),
               packets[Len(packets)]).data

CreationTimePacket(t) ==
    [critical |-> TRUE, tag |-> TagSignatureCreationTime, value |-> BeU32(t)]
KeyFlagsPacket(flags) ==
    [critical |-> TRUE, tag |-> TagKeyFlags, value |-> flags]
EmbeddedPacket(bytes) ==
    [critical |-> TRUE, tag |-> TagEmbeddedSignature, value |-> bytes]

\* A signature of type typ over prefix followed by its own fields, made by
\* signer.
MakeSignature(typ, hashed_area, unhashed_area, signer, prefix) ==
    LET f == [typ |-> typ, pk_algo |-> signer.pk_algo,
              hash_algo |-> DefaultHashAlgo, hashed |-> hashed_area]
        digest == Digest(f.hash_algo, prefix \o SigHash(f))
    IN  Signature4New(typ, f.pk_algo, f.hash_algo, hashed_area, unhashed_area,
                      <<digest[1], digest[2]>>,
                      SignerSign(signer, f.hash_algo, digest))

\* What is hashed ahead of the signature fields for each type.
PrefixOf(typ) ==
    IF typ \in {"Binary", "Text"} THEN <<72, 105>>
    ELSE IF typ \in {"DirectKey", "KeyRevocation"} THEN KeyHash(PrimaryKey)
    ELSE IF typ \in {"SubkeyBinding", "SubkeyRevocation", "PrimaryKeyBinding"}
         THEN KeyHash(PrimaryKey) \o KeyHash(SubKey)
    ELSE IF typ \in {"GenericCertification", "PersonaCertification",
                     "CasualCertification", "PositiveCertification",
                     "CertificationRevocation"}
         THEN KeyHash(PrimaryKey) \o UserIDHash(<<97>>)
    ELSE <<>>

\* Creation times carried by the signatures: none, or a time around the
\* creation times of the keys.
CreationTimeInputs == {<<>>} \cup {<<CreationTimePacket(t)>> : t \in 9..MaxNow}

\* Signatures of every type.
TypedSignatures ==
    {MakeSignature(typ, AreaOf(ct), <<>>, signer, PrefixOf(typ)) :
        typ \in SignatureTypes, ct \in CreationTimeInputs, signer \in Signers}

\* Primary key binding signatures offered for embedding: a valid one, one
\* of a different type, one made by another key, one over another subkey,
\* one that predates the subkey, and bytes that are no signature.
BacksigBy(typ, t, signer, subkey) ==
    SerializeNaked(MakeSignature(typ, AreaOf(<<CreationTimePacket(t)>>), <<>>,
                                 signer, KeyHash(PrimaryKey) \o KeyHash(subkey)))
BacksigInputs ==
    {BacksigBy("PrimaryKeyBinding", 12, SubKey, SubKey),
     BacksigBy("Standalone", 12, SubKey, SubKey),
     BacksigBy("PrimaryKeyBinding", 12, OtherKey, SubKey),
     BacksigBy("PrimaryKeyBinding", 12, SubKey, OtherKey),
     BacksigBy("PrimaryKeyBinding", 11, SubKey, SubKey),
     <<4, 25, 22>>}

KeyFlagsInputs == {<<>>, <<KeyFlagsPacket(<<2>>)>>, <<KeyFlagsPacket(<<3>>)>>,
                   <<KeyFlagsPacket(<<12>>)>>, <<KeyFlagsPacket(<<>>)>>}

\* Subkey binding signatures by the primary key, with and without key flags
\* and with the embedded signature in the hashed area, in the unhashed
\* area, or absent.
BindingSignatures ==
    {MakeSignature("SubkeyBinding",
                   AreaOf(<<CreationTimePacket(t)>> \o kf \o eh),
                   AreaOf(eu), PrimaryKey, KeyHash(PrimaryKey) \o KeyHash(SubKey)) :
        t \in {10, 12}, kf \in KeyFlagsInputs,
        eh \in {<<>>} \cup {<<EmbeddedPacket(e)>> : e \in BacksigInputs},
        eu \in {<<>>} \cup {<<EmbeddedPacket(e)>> : e \in BacksigInputs}}

SignatureInputs == TypedSignatures \cup BindingSignatures

\* Signatures that are compared, normalized and asked for their issuers:
\* one message signature by the primary key under every unhashed area of
\* CompareUnhashed, the same with one more hashed subpacket, and copies that
\* differ in one field only.
PreferredPacket(value) ==
    [critical |-> FALSE, tag |-> TagPreferredSymmetricAlgorithms, value |-> value]
CompareEmbedded ==
    [critical |-> FALSE, tag |-> TagEmbeddedSignature,
     value |-> BacksigBy("PrimaryKeyBinding", 12, SubKey, SubKey)]
CompareUnhashed ==
    { <<>>,
      AreaOf(<<[critical |-> FALSE, tag |-> TagIssuer, value |-> KeyIDBytes(PrimaryKey)]>>),
      AreaOf(<<PreferredPacket(<<7>>)>>),
      AreaOf(<<[critical |-> FALSE, tag |-> TagIssuerFingerprint,
                value |-> <<5>> \o FingerprintBytes(OtherKey)],
               [critical |-> FALSE, tag |-> TagIssuer, value |-> <<1, 2>>]>>),
      AreaOf(<<PreferredPacket(<<7>>),
               [critical |-> FALSE, tag |-> TagIssuer, value |-> KeyIDBytes(PrimaryKey)],
               [critical |-> TRUE, tag |-> TagPolicyURI, value |-> <<104>>]>>),
      AreaOf(<<[critical |-> FALSE, tag |-> TagIssuerFingerprint,
                value |-> <<4>> \o FingerprintBytes(PrimaryKey)],
               [critical |-> FALSE, tag |-> TagIssuer, value |-> KeyIDBytes(PrimaryKey)],
               PreferredPacket(<<>>),
               CompareEmbedded>>),
      AreaOf(<<PreferredPacket(<<9>>),
               [critical |-> FALSE, tag |-> TagIssuer, value |-> KeyIDBytes(OtherKey)],
               [critical |-> TRUE, tag |-> TagPolicyURI, value |-> <<104>>],
               [critical |-> FALSE, tag |-> TagIssuerFingerprint,
                value |-> <<4>> \o FingerprintBytes(OtherKey)],
               [critical |-> FALSE, tag |-> TagIssuer, value |-> KeyIDBytes(PrimaryKey)]>>) }
CompareHashed ==
    { AreaOf(<<CreationTimePacket(11)>>),
      AreaOf(<<CreationTimePacket(11), PreferredPacket(<<7>>)>>),
      AreaOf(<<CreationTimePacket(11),
               [critical |-> FALSE, tag |-> TagIssuer, value |-> KeyIDBytes(SubKey)],
               [critical |-> FALSE, tag |-> TagIssuerFingerprint,
                value |-> <<4>> \o FingerprintBytes(SubKey)]>>) }
CompareBase ==
    {MakeSignature("Binary", h, u, PrimaryKey, <<72, 105>>) :
        h \in CompareHashed, u \in CompareUnhashed}
FieldVariants(s) ==
    { [s EXCEPT !.typ = "Text"],
      [s EXCEPT !.pk_algo = 22],
      [s EXCEPT !.hash_algo = 8],
      [s EXCEPT !.digest_prefix = <<0, 0>>],
      [s EXCEPT !.mpis = <<2>> \o Tail(@)],
      [s EXCEPT !.level = 1],
      [s EXCEPT !.computed_digest = [some |-> TRUE, v |-> <<1>>]] }
CompareInputs ==
    CompareBase
    \cup UNION {FieldVariants(s) :
                  s \in {MakeSignature("Binary", AreaOf(<<CreationTimePacket(11)>>),
                                        u, PrimaryKey, <<72, 105>>) :
                            u \in {<<>>, AreaOf(<<PreferredPacket(<<7>>)>>)}}}

InitCompare ==
    /\ builder = NoValue
    /\ sig \in CompareInputs
    /\ made = [op |-> "none"]
    /\ now = MaxNow
    /\ sigOp = [kind |-> "idle"]

\* Signatures handed to SignatureBuilder::from: made by OtherKey, with the
\* issuer subpackets in the unhashed area, in the hashed area, or absent,
\* with and without a creation time, and with other subpackets in both
\* areas (one of them under a five-octet length header, one of them of
\* 16320 bytes).
IssuerPacket(key) ==
    [critical |-> FALSE, tag |-> TagIssuer, value |-> KeyIDBytes(key)]
IssuerFingerprintPacket(key) ==
    [critical |-> FALSE, tag |-> TagIssuerFingerprint,
     value |-> <<4>> \o FingerprintBytes(key)]
PolicyPacket(value) == [critical |-> FALSE, tag |-> TagPolicyURI, value |-> value]
RebuildAreas ==
    { [hashed   |-> AreaOf(<<CreationTimePacket(10), KeyFlagsPacket(<<3>>)>>),
       unhashed |-> AreaOf(<<IssuerPacket(OtherKey), IssuerFingerprintPacket(OtherKey),
                             PolicyPacket(<<104>>)>>)],
      [hashed   |-> AreaOf(<<IssuerPacket(OtherKey), CreationTimePacket(10),
                             PolicyPacket(<<104>>), IssuerFingerprintPacket(OtherKey)>>),
       unhashed |-> AreaOf(<<CreationTimePacket(9), PolicyPacket(<<105>>)>>)],
      [hashed   |-> AreaOf(<<PolicyPacket(<<104>>)>>),
       unhashed |-> <<>>],
      [hashed   |-> <<255, 0, 0, 0, 3, TagPolicyURI, 104, 105>>
                        \o AreaOf(<<CreationTimePacket(10)>>),
       unhashed |-> AreaOf(<<IssuerPacket(OtherKey)>>)],
      [hashed   |-> <<255, 0, 0, 63, 192, TagPolicyURI>> \o Fill(16319, 254)
                        \o AreaOf(<<CreationTimePacket(10)>>),
       unhashed |-> AreaOf(<<IssuerPacket(OtherKey)>>)] }
RebuildInputs ==
    {MakeSignature(typ, a.hashed, a.unhashed, OtherKey, <<>>) :
        typ \in {"Standalone", "Binary"}, a \in RebuildAreas}

InitRebuild ==
    /\ builder = NoValue
    /\ sig \in RebuildInputs
    /\ made = [op |-> "none"]
    /\ now = StartNow
    /\ sigOp = [kind |-> "idle"]

InitVerify ==
    /\ builder = NoValue
    /\ sig \in SignatureInputs
    /\ made = [op |-> "none"]
    /\ now = MaxNow
    /\ sigOp = [kind |-> "idle"]

InitSign ==
    /\ builder = NoValue /\ sig = NoValue /\ made = [op |-> "none"]
    /\ now = StartNow /\ sigOp = [kind |-> "idle"]

-----------------------------------------------------------------------------
(* Specifications.                                                         *)

-----------------------------------------------------------------------------
(* Key iterators (cert/keyiter.rs): KeyIter, and ValidKeyIter after        *)
(* policy(time).  The certificate, the key amalgamation and the KeyFlags   *)
(* type of crate::types are collaborators.                                 *)

KEY_FLAG_CERTIFY == 1
KEY_FLAG_ENCRYPT_FOR_TRANSPORT == 4
KEY_FLAG_ENCRYPT_AT_REST == 8
KEY_FLAG_AUTHENTICATE == 32

\* Whether the bit with value mask is set in the first octet of flags
\* (KeyFlags::can_certify and its siblings).
FlagBit(flags, mask) ==
    IF Len(flags) >= 1 THEN (flags[1] \div mask) % 2 = 1 ELSE FALSE

\* The capabilities a KeyFlags value grants, by name.
Capabilities(flags) ==
    {c \in {"certification"} : FlagBit(flags, KEY_FLAG_CERTIFY)}
    \cup {c \in {"signing"} : can_sign(flags)}
    \cup {c \in {"transport_encryption"} : FlagBit(flags, KEY_FLAG_ENCRYPT_FOR_TRANSPORT)}
    \cup {c \in {"storage_encryption"} : FlagBit(flags, KEY_FLAG_ENCRYPT_AT_REST)}
    \cup {c \in {"authentication"} : FlagBit(flags, KEY_FLAG_AUTHENTICATE)}

\* types::KeyFlags as the iterator uses it: a set of capabilities, with
\* default() the empty set, | the union and is_empty the test for it.
KeyFlagsDefault == {}
KeyFlagsOr(a, b) == a \cup b
KeyFlagsIsEmpty(flags) == flags = {}

\* KeyAmalgamation::policy(time): the key with its binding signature as of
\* time, the latest self-signature made at or before time; an error when
\* there is none.
BindingAt(key, time) ==
    LET live == {i \in DOMAIN key.sigs :
                    /\ signature_creation_time(key.sigs[i]).some
                    /\ signature_creation_time(key.sigs[i]).v <= time}
    IN  IF live = {} THEN [ok |-> FALSE]
        ELSE [ok |-> TRUE, key |-> key,
              binding |-> key.sigs[CHOOSE i \in live : \A j \in live :
                  \/ signature_creation_time(key.sigs[j]).v
                        < signature_creation_time(key.sigs[i]).v
                  \/ signature_creation_time(key.sigs[j]).v
                        = signature_creation_time(key.sigs[i]).v /\ j <= i]]

\* ValidKeyAmalgamation::has_any_key_flag
has_any_key_flag(ka, flags) ==
    Capabilities(key_flags(ka.binding)) \cap flags # {}

\* Signature::key_expiration_time
key_expiration_time(f) ==
    The({IF sb.some THEN from_be_u32(sb.value) ELSE NoValue :
            sb \in {SigSubpacket(f, TagKeyExpirationTime)}})

\* ValidKeyAmalgamation::alive: created at or before time and not expired.
KeyAlive(ka, time) ==
    /\ ka.key.creation_time <= time
    /\ \/ ~key_expiration_time(ka.binding).some
       \/ time < ka.key.creation_time + key_expiration_time(ka.binding).v

\* KeyHandle::aliases: a key id and a fingerprint of the same key alias.
Aliases(h, key) == h.id = key.id

\* KeyIter::new
KeyIterNew(cert) ==
    [some |-> TRUE, scoped |-> FALSE, cert |-> cert, primary |-> FALSE,
     subkey_iter |-> 1,
     secret |-> NoValue, unencrypted_secret |-> NoValue, key_handles |-> <<>>]

\* Variant of KeyIter::policy that starts with an empty handle list.
KeyIterPolicy_DropsHandles(it, time) ==
    [some |-> TRUE, scoped |-> TRUE, cert |-> it.cert, primary |-> it.primary,
     subkey_iter |-> it.subkey_iter,
     secret |-> it.secret, unencrypted_secret |-> it.unencrypted_secret,
     key_handles |-> <<>>,
     time |-> time, flags |-> NoValue, alive |-> NoValue, revoked |-> NoValue]

\* KeyIter::policy
KeyIterPolicy(it, time) ==
    [some |-> TRUE, scoped |-> TRUE, cert |-> it.cert, primary |-> it.primary,
     subkey_iter |-> it.subkey_iter,
     secret |-> it.secret, unencrypted_secret |-> it.unencrypted_secret,
     key_handles |-> it.key_handles,
     time |-> time, flags |-> NoValue, alive |-> NoValue, revoked |-> NoValue]

\* Variant of ValidKeyIter::key_flags in which the last call wins.
ValidKeyIterKeyFlags_LastWins(it, flags) ==
    [it EXCEPT !.flags = [some |-> TRUE, v |-> flags]]

\* ValidKeyIter::key_flags
ValidKeyIterKeyFlags(it, flags) ==
    IF it.flags.some
    THEN [it EXCEPT !.flags = [some |-> TRUE, v |-> KeyFlagsOr(flags, it.flags.v)]]
    ELSE [it EXCEPT !.flags = [some |-> TRUE, v |-> flags]]

\* Variant of the filters in which a key that could be revoked counts as
\* revoked.
KeyPasses_CouldBeIsRevoked(it, ka) ==
    /\ Len(it.key_handles) > 0 =>
          \E i \in DOMAIN it.key_handles : Aliases(it.key_handles[i], ka.key)
    /\ it.flags.some => has_any_key_flag(ka, it.flags.v)
    /\ it.alive.some => KeyAlive(ka, it.time)
    /\ it.revoked.some => (it.revoked.v <=> ka.key.status \in {"Revoked", "CouldBe"})
    /\ it.secret.some => (it.secret.v <=> ka.key.secret # "none")
    /\ it.unencrypted_secret.some =>
          /\ ka.key.secret # "none"
          /\ it.unencrypted_secret.v <=> ka.key.secret = "unencrypted"

\* The filters of ValidKeyIter::next_common, each a `continue` when it
\* fails: key handles, flags, alive, revoked, secret, unencrypted secret.
KeyPasses(it, ka) ==
    /\ Len(it.key_handles) > 0 =>
          \E i \in DOMAIN it.key_handles : Aliases(it.key_handles[i], ka.key)
    /\ it.flags.some => has_any_key_flag(ka, it.flags.v)
    /\ it.alive.some => KeyAlive(ka, it.time)
    /\ it.revoked.some => (it.revoked.v <=> ka.key.status = "Revoked")
    /\ it.secret.some => (it.secret.v <=> ka.key.secret # "none")
    /\ it.unencrypted_secret.some =>
          /\ ka.key.secret # "none"
          /\ it.unencrypted_secret.v <=> ka.key.secret = "unencrypted"

\* Variant of the loop in which a subkey without a binding ends the
\* traversal as the primary key does.
RECURSIVE KeyLoop_SubkeyAborts(_)
KeyLoop_SubkeyAborts(it) ==
    IF ~it.primary
    THEN The({IF ~ka.ok THEN [it |-> [it EXCEPT !.primary = TRUE], item |-> NoValue]
              ELSE IF KeyPasses(it, ka)
                   THEN [it |-> [it EXCEPT !.primary = TRUE],
                         item |-> [some |-> TRUE, key |-> ka.key,
                                   binding |-> ka.binding]]
                   ELSE KeyLoop_SubkeyAborts([it EXCEPT !.primary = TRUE]) :
                 ka \in {BindingAt(it.cert.primary, it.time)}})
    ELSE IF it.subkey_iter > Len(it.cert.subkeys)
    THEN [it |-> it, item |-> NoValue]
    ELSE The({IF ~ka.ok
              THEN [it |-> [it EXCEPT !.subkey_iter = @ + 1], item |-> NoValue]
              ELSE IF KeyPasses(it, ka)
              THEN [it |-> [it EXCEPT !.subkey_iter = @ + 1],
                    item |-> [some |-> TRUE, key |-> ka.key,
                              binding |-> ka.binding]]
              ELSE KeyLoop_SubkeyAborts([it EXCEPT !.subkey_iter = @ + 1]) :
                 ka \in {BindingAt(it.cert.subkeys[it.subkey_iter], it.time)}})

\* The loop of ValidKeyIter::next_common: [it, item], item the key returned
\* or NoValue.
RECURSIVE KeyLoop(_)
KeyLoop(it) ==
    IF ~it.primary
    THEN The({IF ~ka.ok THEN [it |-> [it EXCEPT !.primary = TRUE], item |-> NoValue]
              ELSE IF KeyPasses(it, ka)
                   THEN [it |-> [it EXCEPT !.primary = TRUE],
                         item |-> [some |-> TRUE, key |-> ka.key,
                                   binding |-> ka.binding]]
                   ELSE KeyLoop([it EXCEPT !.primary = TRUE]) :
                 ka \in {BindingAt(it.cert.primary, it.time)}})
    ELSE IF it.subkey_iter > Len(it.cert.subkeys)
    THEN [it |-> it, item |-> NoValue]
    ELSE The({IF ka.ok /\ KeyPasses(it, ka)
              THEN [it |-> [it EXCEPT !.subkey_iter = @ + 1],
                    item |-> [some |-> TRUE, key |-> ka.key,
                              binding |-> ka.binding]]
              ELSE KeyLoop([it EXCEPT !.subkey_iter = @ + 1]) :
                 ka \in {BindingAt(it.cert.subkeys[it.subkey_iter], it.time)}})

\* Variant of next_common that takes an empty flag set for no flag filter.
ValidKeyIterNextCommon_EmptyIsNoFilter(it) ==
    IF ~it.some THEN [it |-> it, item |-> NoValue]
    ELSE IF it.flags.some /\ KeyFlagsIsEmpty(it.flags.v)
    THEN KeyLoop([it EXCEPT !.flags = NoValue])
    ELSE KeyLoop(it)

\* ValidKeyIter::next_common
ValidKeyIterNextCommon(it) ==
    IF ~it.some THEN [it |-> it, item |-> NoValue]
    ELSE IF it.flags.some /\ KeyFlagsIsEmpty(it.flags.v)
    THEN [it |-> it, item |-> NoValue]
    ELSE KeyLoop(it)

\* Bound on the builder calls made on one iterator.
MaxKeyCalls == 3

\* A builder call on the iterator, before the first call of next.
KeyCall(op, scoped, it) ==
    /\ kit.some /\ kit.scoped = scoped
    /\ kitOp.kind # "next"
    /\ asked.calls < MaxKeyCalls
    /\ kit' = it
    /\ kitOp' = [kind |-> "build", op |-> op]
    /\ UNCHANGED yielded

KeyCallFrame ==
    /\ asked' = [asked EXCEPT !.calls = @ + 1]
    /\ UNCHANGED <<lenVars, areaVars, sigVars, expVars, rawVars>>

\* KeyIter::skip_primary
SkipPrimary ==
    /\ KeyCall("skip_primary", FALSE, [kit EXCEPT !.primary = TRUE])
    /\ asked' = [asked EXCEPT !.calls = @ + 1, !.skipped = TRUE]
    /\ UNCHANGED <<lenVars, areaVars, sigVars, expVars, rawVars>>

\* KeyIter::policy(time)
Policy(time) ==
    /\ KeyCall("policy", FALSE, KeyIterPolicy(kit, time))
    /\ KeyCallFrame

\* secret() of either iterator
Secret ==
    /\ kit.some
    /\ KeyCall("secret", kit.scoped, [kit EXCEPT !.secret = [some |-> TRUE, v |-> TRUE]])
    /\ KeyCallFrame

\* unencrypted_secret() of either iterator
UnencryptedSecret ==
    /\ kit.some
    /\ KeyCall("unencrypted_secret", kit.scoped,
               [kit EXCEPT !.unencrypted_secret = [some |-> TRUE, v |-> TRUE]])
    /\ KeyCallFrame

\* key_handle(h) of either iterator
KeyHandle(h) ==
    /\ kit.some
    /\ KeyCall("key_handle", kit.scoped,
               [kit EXCEPT !.key_handles = Append(@, h)])
    /\ asked' = [asked EXCEPT !.calls = @ + 1,
                              !.handles = @ \cup {[h |-> h, scoped |-> kit.scoped]}]
    /\ UNCHANGED <<lenVars, areaVars, sigVars, expVars, rawVars>>

\* key_handles(hs) of either iterator
KeyHandles(hs) ==
    /\ kit.some
    /\ KeyCall("key_handles", kit.scoped,
               [kit EXCEPT !.key_handles = @ \o hs])
    /\ asked' = [asked EXCEPT !.calls = @ + 1,
                              !.handles = @ \cup {[h |-> hs[i], scoped |-> kit.scoped] :
                                                    i \in DOMAIN hs}]
    /\ UNCHANGED <<lenVars, areaVars, sigVars, expVars, rawVars>>

\* A call that hands flags to ValidKeyIter::key_flags.
FlagsCall(op, flags) ==
    /\ kit.some
    /\ KeyCall(op, TRUE, ValidKeyIterKeyFlags(kit, flags))
    /\ asked' = [asked EXCEPT !.calls = @ + 1, !.flags = @ \cup {flags}]
    /\ UNCHANGED <<lenVars, areaVars, sigVars, expVars, rawVars>>

KeyFlagsCall(flags) == FlagsCall("key_flags", flags)
ForCertification == FlagsCall("for_certification", KeyFlagsDefault \cup {"certification"})
ForSigning == FlagsCall("for_signing", KeyFlagsDefault \cup {"signing"})
ForAuthentication == FlagsCall("for_authentication", KeyFlagsDefault \cup {"authentication"})
ForStorageEncryption ==
    FlagsCall("for_storage_encryption", KeyFlagsDefault \cup {"storage_encryption"})
ForTransportEncryption ==
    FlagsCall("for_transport_encryption", KeyFlagsDefault \cup {"transport_encryption"})

\* ValidKeyIter::alive
Alive ==
    /\ kit.some
    /\ KeyCall("alive", TRUE, [kit EXCEPT !.alive = [some |-> TRUE]])
    /\ KeyCallFrame

\* ValidKeyIter::revoked(v)
Revoked(v) ==
    /\ kit.some
    /\ KeyCall("revoked", TRUE, [kit EXCEPT !.revoked = v])
    /\ asked' = [asked EXCEPT !.calls = @ + 1, !.revoked = Append(@, v)]
    /\ UNCHANGED <<lenVars, areaVars, sigVars, expVars, rawVars>>

\* Iterator::next of ValidKeyIter
KeyNext ==
    /\ kit.some /\ kit.scoped
    /\ \E r \in {ValidKeyIterNextCommon(kit)} :
          /\ kit' = r.it
          /\ kitOp' = [kind |-> "next", op |-> "next",
                       item |-> IF r.item.some
                                THEN [some |-> TRUE, v |-> r.item.key.id]
                                ELSE NoValue]
          /\ yielded' = IF r.item.some THEN Append(yielded, r.item.key.id)
                        ELSE yielded
    /\ UNCHANGED asked
    /\ UNCHANGED <<lenVars, areaVars, sigVars, expVars, rawVars>>

\* Certificates.  A binding signature carries its creation time and, some
\* of them, key flags and a key expiration time.
KeyExpirationPacket(e) ==
    [critical |-> TRUE, tag |-> TagKeyExpirationTime, value |-> BeU32(e)]
BindingSig(created, flags) ==
    [hashed |-> AreaOf(<<CreationTimePacket(created), KeyFlagsPacket(<<flags>>)>>),
     unhashed |-> <<>>]
BindingSigNoFlags(created) ==
    [hashed |-> AreaOf(<<CreationTimePacket(created)>>), unhashed |-> <<>>]
BindingSigExpiring(created, flags, e) ==
    [hashed |-> AreaOf(<<CreationTimePacket(created), KeyFlagsPacket(<<flags>>),
                         KeyExpirationPacket(e)>>),
     unhashed |-> <<>>]
CertKey(id, created, secret, status, sigs) ==
    [id |-> id, creation_time |-> created, secret |-> secret, status |-> status,
     sigs |-> sigs]

\* The evaluation times handed to policy().
PolicyTimes == {15, 25}

\* Three certificates: one whose subkeys differ in flags, in the time their
\* binding starts and in having flags at all; one whose primary key has no
\* binding at the early time; one with secrets, a revoked and an expiring
\* subkey.
Certs ==
    { [primary |-> CertKey(1, 10, "none", "NotAsFarAsWeKnow", <<BindingSig(10, 3)>>),
       subkeys |-> << CertKey(2, 12, "none", "NotAsFarAsWeKnow",
                              <<BindingSig(12, 2), BindingSig(20, 4)>>),
                      CertKey(3, 12, "none", "NotAsFarAsWeKnow", <<BindingSig(20, 2)>>),
                      CertKey(4, 12, "none", "NotAsFarAsWeKnow", <<BindingSigNoFlags(12)>>) >>],
      [primary |-> CertKey(1, 10, "none", "NotAsFarAsWeKnow", <<BindingSig(20, 1)>>),
       subkeys |-> << CertKey(2, 12, "none", "NotAsFarAsWeKnow", <<BindingSig(12, 4)>>) >>],
      [primary |-> CertKey(1, 10, "unencrypted", "NotAsFarAsWeKnow", <<BindingSig(10, 1)>>),
       subkeys |-> << CertKey(2, 12, "encrypted", "CouldBe",
                              <<BindingSigExpiring(12, 12, 8)>>),
                      CertKey(3, 12, "none", "Revoked", <<BindingSig(12, 34)>>) >>] }

FlagInputs == {{}, {"signing"}, {"certification", "transport_encryption"}}
HandleInputs == {[kind |-> "KeyID", id |-> 2], [kind |-> "Fingerprint", id |-> 3]}
HandleListInputs ==
    {<<>>, <<[kind |-> "Fingerprint", id |-> 2], [kind |-> "KeyID", id |-> 4]>>}
RevokedInputs == {NoValue, [some |-> TRUE, v |-> TRUE], [some |-> TRUE, v |-> FALSE]}

\* cert.keys()
InitKeys ==
    /\ kit \in {KeyIterNew(cert) : cert \in Certs}
    /\ kitOp = [kind |-> "new"]
    /\ yielded = <<>>
    /\ asked = [flags |-> {}, skipped |-> FALSE, revoked |-> <<>>, handles |-> {},
             calls |-> 0]

-----------------------------------------------------------------------------
(* key_expired_at.  A u32 is a pair <<high, low>> of 16-bit halves and an  *)
(* i64 of the range needed a triple <<top, high, low>>, so that sums       *)
(* beyond 2^32 stay exact.                                                 *)

\* The sum of two u32 values as a triple: top is the carry out of 32 bits.
WideSum(a, b) ==
    <<(a[1] + b[1] + (a[2] + b[2]) \div 65536) \div 65536,
      (a[1] + b[1] + (a[2] + b[2]) \div 65536) % 65536,
      (a[2] + b[2]) % 65536>>

\* `as i64` of a u32.
AsI64(a) == <<0, a[1], a[2]>>

\* key.creation_time + e in u32 arithmetic: the overflow check of a debug
\* build panics, a release build wraps.
AddU32(a, b) ==
    IF WideSum(a, b)[1] = 0
    THEN {[panic |-> FALSE, v |-> <<WideSum(a, b)[2], WideSum(a, b)[3]>>]}
    ELSE {[panic |-> TRUE],
          [panic |-> FALSE, v |-> <<WideSum(a, b)[2], WideSum(a, b)[3]>>]}

\* x <= y on triples.
WideLeq(x, y) ==
    \/ x[1] < y[1]
    \/ x[1] = y[1] /\ x[2] < y[2]
    \/ x[1] = y[1] /\ x[2] = y[2] /\ x[3] <= y[3]

\* Signature::key_expired_at: the outcomes the build can produce.
key_expired_at(creation_time, expiration, tm) ==
    IF ~expiration.some THEN {[kind |-> "ok", expired |-> FALSE]}
    ELSE {IF s.panic THEN [kind |-> "panic"]
          ELSE [kind |-> "ok", expired |-> WideLeq(AsI64(s.v), tm)] :
             s \in AddU32(creation_time, expiration.v)}

\* sig.key_expired_at(key, tm)
KeyExpiredAt ==
    /\ expIn.some /\ expOut.kind = "idle"
    /\ expOut' \in key_expired_at(expIn.creation_time, expIn.expiration, expIn.tm)
    /\ UNCHANGED expIn
    /\ UNCHANGED <<lenVars, areaVars, sigVars, iterVars, rawVars>>

\* The next question put to the same signature and key.
KeyExpiredReset ==
    /\ expIn.some /\ expOut.kind # "idle"
    /\ expOut' = [kind |-> "idle"]
    /\ \E tm \in {WideSum(expIn.creation_time, <<0, 0>>), <<1, 65535, 65535>>} :
          expIn' = [expIn EXCEPT !.tm = tm]
    /\ UNCHANGED <<lenVars, areaVars, sigVars, iterVars, rawVars>>

\* The value below x, 0 for 0.
WidePred(x) ==
    IF x[3] > 0 THEN <<x[1], x[2], x[3] - 1>>
    ELSE IF x[2] > 0 THEN <<x[1], x[2] - 1, 65535>>
    ELSE IF x[1] > 0 THEN <<x[1] - 1, 65535, 65535>>
    ELSE x

\* Creation times and expirations: small, as in the test of subpacket.rs
\* (1515791508 and 63072000), and at the top of the u32 range.
KeyCreationInputs == {<<0, 10>>, <<23129, 6804>>, <<32768, 0>>, <<65535, 65535>>}
ExpirationInputs ==
    {NoValue} \cup {[some |-> TRUE, v |-> e] :
                       e \in {<<0, 0>>, <<0, 1>>, <<962, 26368>>, <<32768, 0>>,
                              <<65535, 65535>>}}

\* The times asked about: the exact and the wrapped sum, and one second
\* before each.
TimeInputs(c, e) ==
    IF ~e.some THEN {<<0, 0, 0>>, AsI64(c), <<1, 65535, 65535>>}
    ELSE {WideSum(c, e.v), WidePred(WideSum(c, e.v)),
          <<0, WideSum(c, e.v)[2], WideSum(c, e.v)[3]>>,
          WidePred(<<0, WideSum(c, e.v)[2], WideSum(c, e.v)[3]>>)}

InitExpiry ==
    /\ \E c \in KeyCreationInputs, e \in ExpirationInputs :
          \E tm \in TimeInputs(c, e) :
             expIn = [some |-> TRUE, creation_time |-> c, expiration |-> e, tm |-> tm]
    /\ expOut = [kind |-> "idle"]

-----------------------------------------------------------------------------
(* Decoding a raw subpacket, and the accessors of a Signature's subpackets *)
(* that carry a value: the setter replaces the subpacket in the hashed     *)
(* area, the getter decodes the subpacket that Signature::subpacket finds. *)

TagSignatureExpirationTime == 3
TagExportableCertification == 4
TagTrustSignature == 5
TagRegularExpression == 6
TagRevocable == 7
TagRevocationKey == 12
TagNotationData == 20
TagPrimaryUserID == 25
TagReasonForRevocation == 29
TagSignatureTarget == 31

\* Tags that From<u8> for SubpacketTag maps to Reserved, Private, Unknown or
\* the placeholder.
UnknownTags == {0, 1, 8, 10, 13, 14, 15, 17, 18, 19} \cup 34..127

\* from_be_u16
from_be_u16(value) ==
    IF Len(value) >= 2 THEN [some |-> TRUE, v |-> value[1] * 256 + value[2]]
    ELSE NoValue

\* from_be_u32 with the u32 as a pair <<high, low>> of 16-bit halves.
from_be_u32_halves(value) ==
    IF Len(value) >= 4
    THEN [some |-> TRUE,
          v |-> <<value[1] * 256 + value[2], value[3] * 256 + value[4]>>]
    ELSE NoValue

\* The NotationData arm of the decoder with the header test as the source
\* has it.
NotationDataFrom(value) ==
    IF Len(value) > 8
    THEN LET name_len  == from_be_u16(Tail_(value, 5)).v
             value_len == from_be_u16(Tail_(value, 7)).v
         IN  IF Len(value) = 8 + name_len + value_len
             THEN [some |-> TRUE,
                   v |-> [flags |-> from_be_u32_halves(value).v,
                          name  |-> SubSeq(value, 9, 8 + name_len),
                          value |-> Tail_(value, 9 + name_len)]]
             ELSE NoValue
    ELSE NoValue

\* The match of From<SubpacketRaw> for Subpacket: Some(value) or None.
SubpacketValueFrom(raw) ==
    CASE raw.tag \in {TagSignatureCreationTime, TagSignatureExpirationTime,
                      TagKeyExpirationTime} ->
            from_be_u32_halves(raw.value)
      [] raw.tag = TagExportableCertification ->
            IF Len(raw.value) = 1
            THEN [some |-> TRUE, v |-> raw.value[1] = 1] ELSE NoValue
      [] raw.tag = TagTrustSignature ->
            IF Len(raw.value) = 2
            THEN [some |-> TRUE, v |-> <<raw.value[1], raw.value[2]>>]
            ELSE NoValue
      [] raw.tag = TagRegularExpression ->
            LET trim == IF Len(raw.value) > 0 /\ raw.value[Len(raw.value)] = 0
                        THEN 1 ELSE 0
            IN  [some |-> TRUE,
                 v |-> SubSeq(raw.value, 1, Len(raw.value) - trim)]
      [] raw.tag = TagRevocable ->
            IF Len(raw.value) = 1
            THEN [some |-> TRUE, v |-> raw.value[1] # 0] ELSE NoValue
      [] raw.tag = TagRevocationKey ->
            IF Len(raw.value) > 2
            THEN [some |-> TRUE,
                  v |-> [class |-> raw.value[1], pk_algo |-> raw.value[2],
                         fp |-> Tail_(raw.value, 3)]]
            ELSE NoValue
      [] raw.tag = TagNotationData -> NotationDataFrom(raw.value)
      [] raw.tag = TagPrimaryUserID ->
            IF Len(raw.value) = 1
            THEN [some |-> TRUE, v |-> raw.value[1] # 0] ELSE NoValue
      [] raw.tag = TagReasonForRevocation ->
            IF Len(raw.value) >= 1
            THEN [some |-> TRUE,
                  v |-> [code |-> raw.value[1], reason |-> Tail_(raw.value, 2)]]
            ELSE NoValue
      [] raw.tag = TagSignatureTarget ->
            IF Len(raw.value) > 2
            THEN [some |-> TRUE,
                  v |-> [pk_algo |-> raw.value[1], hash_algo |-> raw.value[2],
                         digest |-> Tail_(raw.value, 3)]]
            ELSE NoValue
      [] raw.tag = TagEmbeddedSignature ->
            IF ParseNaked(raw.value).some
            THEN [some |-> TRUE, v |-> ParseNaked(raw.value)] ELSE NoValue
      [] raw.tag = TagIssuerFingerprint ->
            IF Len(raw.value) >= 1 /\ raw.value[1] = 4
            THEN [some |-> TRUE, v |-> Tail_(raw.value, 2)] ELSE NoValue
      [] OTHER -> [some |-> TRUE, v |-> raw.value]

\* From<SubpacketRaw> for Subpacket: the decoded value under the variant of
\* its tag, Unknown for a tag without a variant, Invalid with the raw bytes
\* when the match gives None.
SubpacketFrom(raw) ==
    IF raw.tag \in UnknownTags
    THEN [critical |-> raw.critical, tag |-> raw.tag,
          kind |-> "Unknown", v |-> raw.value]
    ELSE IF SubpacketValueFrom(raw).some
    THEN [critical |-> raw.critical, tag |-> raw.tag,
          kind |-> "Valid", v |-> SubpacketValueFrom(raw).v]
    ELSE [critical |-> raw.critical, tag |-> raw.tag,
          kind |-> "Invalid", v |-> raw.value]

\* The getters of Signature: the value when the subpacket is there and
\* decodes to the variant of its tag, None otherwise.
Getter(f, tag) ==
    The({IF sb.some /\ SubpacketFrom(sb).kind = "Valid"
         THEN [some |-> TRUE, v |-> SubpacketFrom(sb).v] ELSE NoValue :
            sb \in {SigSubpacket(f, tag)}})

\* Signature::notation_data: every NotationData subpacket of the hashed area
\* that decodes to a notation, in order.
notation_data(f) ==
    LET valid == SelectSeq(Subpackets(f.hashed, TagNotationData),
                           LAMBDA sb : SubpacketFrom(sb).kind = "Valid")
    IN  [i \in 1..Len(valid) |-> SubpacketFrom(valid[i]).v]

\* An i64 number of seconds is a triple <<top, high, low>>: top is the
\* upper 32 bits as a signed number, high and low the 16-bit halves of the
\* lower 32 bits.
\* duration2pgp: an error above u32::MAX, otherwise `secs as u32`.
duration2pgp(d) ==
    IF d[1] >= 1 THEN [ok |-> FALSE]
    ELSE [ok |-> TRUE, v |-> <<d[2], d[3]>>]

\* A u32 given as halves, in big-endian byte order.
BeHalves(h) == BeU16(h[1]) \o BeU16(h[2])

\* The payload a value is serialized to, by tag.
SubpacketValueSerialize(tag, v) ==
    CASE tag \in {TagSignatureExpirationTime, TagKeyExpirationTime} -> BeHalves(v)
      [] tag \in {TagExportableCertification, TagRevocable, TagPrimaryUserID} ->
            <<IF v THEN 1 ELSE 0>>
      [] tag = TagRegularExpression -> v \o <<0>>
      [] tag = TagSignatureTarget -> <<v.pk_algo, v.hash_algo>> \o v.digest
      [] OTHER -> v

\* self.hashed_area.replace(Subpacket::new(SubpacketValue::X(v), true)?)
SetValue(s, tag, v) == HashedReplace(s, tag, SubpacketValueSerialize(tag, v))

\* set_signature_expiration_time / set_key_expiration_time: Some(e) replaces
\* the subpacket by duration2pgp(e), None removes every subpacket of the tag.
SetExpiration(s, tag, e) ==
    IF e.some
    THEN IF duration2pgp(e.v).ok
         THEN SetValue(s, tag, duration2pgp(e.v).v)
         ELSE [ok |-> FALSE, b |-> s]
    ELSE [ok |-> TRUE, b |-> [s EXCEPT !.hashed = RemoveAllBytes(s.hashed, tag)]]

set_signature_expiration_time(s, e) ==
    SetExpiration(s, TagSignatureExpirationTime, e)

set_key_expiration_time(s, e) == SetExpiration(s, TagKeyExpirationTime, e)

\* Signature::signature_expired_at: the outcomes the build can produce.
signature_expired_at(f, tm) ==
    The({IF ~e.some THEN {[kind |-> "ok", expired |-> FALSE]}
         ELSE IF ~c.some THEN {[kind |-> "ok", expired |-> TRUE]}
         ELSE {IF s.panic THEN [kind |-> "panic"]
               ELSE [kind |-> "ok", expired |-> WideLeq(AsI64(s.v), tm)] :
                  s \in AddU32(c.v, e.v)} :
            c \in {Getter(f, TagSignatureCreationTime)},
            e \in {Getter(f, TagSignatureExpirationTime)}})

\* The number of setter calls made on the Signature at hand.
MaxSetCalls == 2
SetCalls == IF sigOp.kind = "set" THEN sigOp.calls ELSE 0

\* One setter call on the Signature at hand: a failed call leaves it as
\* replace's rollback left it.
SetCall(op, tag, arg, r) ==
    /\ sig.some /\ builder = NoValue
    /\ SetCalls < MaxSetCalls
    /\ sig' = r.b
    /\ sigOp' = [kind |-> "set", op |-> op, tag |-> tag, arg |-> arg,
                 ok |-> r.ok, calls |-> SetCalls + 1]
    /\ UNCHANGED <<builder, made, now>>
    /\ UNCHANGED <<lenVars, areaVars, iterVars, expVars, rawVars>>

\* sig.set_signature_expiration_time(e)
SetSignatureExpirationTime(e) ==
    SetCall("set_signature_expiration_time", TagSignatureExpirationTime, e,
            set_signature_expiration_time(sig, e))

\* sig.set_key_expiration_time(e)
SetKeyExpirationTime(e) ==
    SetCall("set_key_expiration_time", TagKeyExpirationTime, e,
            set_key_expiration_time(sig, e))

\* sig.set_exportable_certification(v)
SetExportableCertification(v) ==
    SetCall("set_exportable_certification", TagExportableCertification,
            [some |-> TRUE, v |-> v], SetValue(sig, TagExportableCertification, v))

\* sig.set_regular_expression(re)
SetRegularExpression(re) ==
    SetCall("set_regular_expression", TagRegularExpression,
            [some |-> TRUE, v |-> re], SetValue(sig, TagRegularExpression, re))

\* sig.set_revocable(v)
SetRevocable(v) ==
    SetCall("set_revocable", TagRevocable,
            [some |-> TRUE, v |-> v], SetValue(sig, TagRevocable, v))

\* sig.set_primary_userid(v)
SetPrimaryUserid(v) ==
    SetCall("set_primary_userid", TagPrimaryUserID,
            [some |-> TRUE, v |-> v], SetValue(sig, TagPrimaryUserID, v))

\* sig.set_policy_uri(uri)
SetPolicyUri(uri) ==
    SetCall("set_policy_uri", TagPolicyURI,
            [some |-> TRUE, v |-> uri], SetValue(sig, TagPolicyURI, uri))

\* sig.set_signature_target(pk_algo, hash_algo, digest)
SetSignatureTarget(t) ==
    SetCall("set_signature_target", TagSignatureTarget,
            [some |-> TRUE, v |-> t], SetValue(sig, TagSignatureTarget, t))

\* Durations in seconds: five and ten minutes as in the accessors test, one
\* second before zero, and one second past u32::MAX.
DurationInputs ==
    {NoValue} \cup {[some |-> TRUE, v |-> d] :
                       d \in {<<0, 0, 300>>, <<0, 0, 600>>,
                              <<-1, 65535, 65535>>, <<1, 0, 0>>}}
RegularExpressionInputs == {<<102, 111, 111>>, <<102, 0>>}
PolicyUriInputs == {<<102, 111, 111>>, <<>>}
SignatureTargetInputs ==
    {[pk_algo |-> 22, hash_algo |-> 10, digest |-> <<0, 0>>],
     [pk_algo |-> 22, hash_algo |-> 10, digest |-> <<>>]}

\* The subpackets a Signature may hold before the first call.
NotationPacket(name, value) ==
    [critical |-> FALSE, tag |-> TagNotationData,
     value |-> <<128, 0, 0, 0>> \o BeU16(Len(name)) \o BeU16(Len(value))
                  \o name \o value]
ExpirationPacket(tag, e) == [critical |-> TRUE, tag |-> tag, value |-> BeU32(e)]
AccessorAreas ==
    { [hashed |-> <<>>, unhashed |-> <<>>],
      [hashed |-> AreaOf(<<CreationTimePacket(10),
                           ExpirationPacket(TagSignatureExpirationTime, 300),
                           PolicyPacket(<<104>>), PolicyPacket(<<105>>)>>),
       unhashed |-> AreaOf(<<ExpirationPacket(TagSignatureExpirationTime, 600),
                             IssuerPacket(OtherKey)>>)],
      [hashed |-> AreaOf(<<ExpirationPacket(TagKeyExpirationTime, 300),
                           [critical |-> FALSE, tag |-> TagRevocable, value |-> <<2>>],
                           ExpirationPacket(TagKeyExpirationTime, 600),
                           NotationPacket(<<110>>, <<118>>),
                           IssuerPacket(SubKey),
                           KeyFlagsPacket(<<3>>)>>),
       unhashed |-> AreaOf(<<IssuerPacket(OtherKey)>>)] }

InitAccessors ==
    /\ builder = NoValue
    /\ sig \in {MakeSignature("Binary", a.hashed, a.unhashed, OtherKey, <<>>) :
                   a \in AccessorAreas}
    /\ made = [op |-> "none"]
    /\ now = StartNow
    /\ sigOp = [kind |-> "idle"]

-----------------------------------------------------------------------------
(* Converting one raw subpacket.                                           *)

\* Subpacket::from(raw) on the raw subpacket at hand.
SubpacketFromRaw ==
    /\ rawIn.some /\ rawOut.kind = "idle"
    /\ rawOut' = SubpacketFrom(rawIn)
    /\ UNCHANGED rawIn
    /\ UNCHANGED <<lenVars, areaVars, sigVars, iterVars, expVars>>

\* The same payload met again under the other setting of the critical bit.
SubpacketFromNext ==
    /\ rawIn.some /\ rawOut.kind # "idle" /\ ~rawIn.critical
    /\ rawIn' = [rawIn EXCEPT !.critical = TRUE]
    /\ rawOut' = [kind |-> "idle"]
    /\ UNCHANGED <<lenVars, areaVars, sigVars, iterVars, expVars>>

\* Payloads of the one-octet boolean subpackets: no octet, one octet, two.
BoolPayloads ==
    {<<>>} \cup {<<b>> : b \in {0, 1, 2, 128, 255}} \cup {<<1, 0>>, <<0, 1>>}

\* Payloads of NotationData: a header declaring name and value lengths of
\* 0 to 2 followed by 0 to 4 bytes, and payloads shorter than the header.
MaxNotationLen == 2
NotationPayloads ==
    {<<128, 0, 0, 0>> \o BeU16(n) \o BeU16(v) \o Fill(k, 97) :
        n \in 0..MaxNotationLen, v \in 0..MaxNotationLen, k \in 0..(2 * MaxNotationLen)}
    \cup {Fill(k, 0) : k \in {0, 3, 7}}

RawInputs ==
    {[some |-> TRUE, critical |-> FALSE, tag |-> t, value |-> p] :
        t \in {TagExportableCertification, TagRevocable, TagPrimaryUserID},
        p \in BoolPayloads}
    \cup {[some |-> TRUE, critical |-> FALSE, tag |-> TagNotationData, value |-> p] :
             p \in NotationPayloads}

InitRaw == rawIn \in RawInputs /\ rawOut = [kind |-> "idle"]

InitLen == InitLenHarness /\ IdleArea /\ IdleSig /\ IdleIter /\ IdleExp /\ IdleRaw
NextLen == LenSerialize \/ LenParse
SpecLen == InitLen /\ [][NextLen]_vars

InitAreaSpec == IdleLen /\ InitArea /\ IdleSig /\ IdleIter /\ IdleExp /\ IdleRaw
NextArea ==
    \/ \E packet \in AreaPackets : AreaAdd(packet)
    \/ \E packet \in AreaPackets : AreaReplace(packet)
    \/ \E tag \in AreaTags : AreaRemoveAll(tag)
    \/ \E tag \in AreaTags : AreaLookup(tag)
SpecArea == InitAreaSpec /\ [][NextArea]_vars

\* The verify_* calls on the Signature at hand.
NextVerify ==
    \/ \E key \in Keys : VerifyDigest(key)
    \/ \E key \in Keys : Verify(key)
    \/ \E key \in Keys : VerifyStandalone(key)
    \/ \E key \in Keys : VerifyTimestamp(key)
    \/ \E signer \in Keys : VerifyDirectKey(signer)
    \/ \E signer \in Keys : VerifyPrimaryKeyRevocation(signer)
    \/ \E signer \in Keys : \E subkey \in {SubKey, OtherKey} :
           VerifySubkeyBinding(signer, subkey)
    \/ \E subkey \in {SubKey, OtherKey} : VerifyPrimaryKeyBinding(subkey)
    \/ \E signer \in Keys : VerifySubkeyRevocation(signer)
    \/ \E signer \in Keys : \E userid \in UserIDs : VerifyUseridBinding(signer, userid)
    \/ \E signer \in Keys : \E userid \in UserIDs : VerifyUseridRevocation(signer, userid)
    \/ \E signer \in Keys : \E ua \in UserAttributes :
           VerifyUserAttributeBinding(signer, ua)
    \/ \E signer \in Keys : \E ua \in UserAttributes :
           VerifyUserAttributeRevocation(signer, ua)
    \/ \E signer \in Keys : \E msg \in Messages : VerifyMessage(signer, msg)

InitVerifySpec == IdleLen /\ IdleArea /\ InitVerify /\ IdleIter /\ IdleExp /\ IdleRaw
SpecVerify == InitVerifySpec /\ [][NextVerify]_vars

\* Building, signing, then verifying what was signed.
NextSign ==
    \/ \E typ \in SignatureTypes : NewBuilder(typ)
    \/ \E t \in OverrideTimes : SetSignatureCreationTime(t)
    \/ \E signer \in Signers : SignStandalone(signer)
    \/ \E signer \in Signers : SignTimestamp(signer)
    \/ \E signer \in Signers : SignDirectKey(signer)
    \/ \E signer \in Signers : \E userid \in UserIDs : SignUseridBinding(signer, userid)
    \/ \E signer \in Signers : SignSubkeyBinding(signer)
    \/ \E signer \in Signers : SignPrimaryKeyBinding(signer)
    \/ \E signer \in Signers : \E ua \in UserAttributes :
           SignUserAttributeBinding(signer, ua)
    \/ \E signer \in Signers : \E hash \in HashContexts : SignHash(signer, hash)
    \/ \E signer \in Signers : \E msg \in Messages : SignMessage(signer, msg)
    \/ Tick
    \/ NextVerify

InitSignSpec == IdleLen /\ IdleArea /\ InitSign /\ IdleIter /\ IdleExp /\ IdleRaw
SpecSign == InitSignSpec /\ [][NextSign]_vars

\* Turning a Signature back into a builder, adjusting it, signing again.
NextRebuild ==
    \/ FromSignature
    \/ \E typ \in {"Standalone", "Binary"} : NewBuilder(typ)
    \/ \E key \in {OtherKey} : SetIssuer(key)
    \/ \E key \in {OtherKey} : SetIssuerFingerprint(key)
    \/ \E t \in OverrideTimes : SetSignatureCreationTime(t)
    \/ \E signer \in Signers : SignStandalone(signer)
    \/ \E signer \in Signers : \E msg \in Messages : SignMessage(signer, msg)
    \/ Tick

\* Comparing, hashing and normalizing the Signature at hand, and collecting
\* its issuers.
NextCompare ==
    \/ \E other \in CompareInputs : NormalizedEq(other)
    \/ \E other \in CompareInputs : Eq(other)
    \/ Normalize
    \/ GetIssuers

InitCompareSpec == IdleLen /\ IdleArea /\ InitCompare /\ IdleIter /\ IdleExp /\ IdleRaw
SpecCompare == InitCompareSpec /\ [][NextCompare]_vars

InitRebuildSpec == IdleLen /\ IdleArea /\ InitRebuild /\ IdleIter /\ IdleExp /\ IdleRaw
SpecRebuild == InitRebuildSpec /\ [][NextRebuild]_vars

NextKeys ==
    \/ SkipPrimary
    \/ \E time \in PolicyTimes : Policy(time)
    \/ Secret
    \/ UnencryptedSecret
    \/ \E h \in HandleInputs : KeyHandle(h)
    \/ \E hs \in HandleListInputs : KeyHandles(hs)
    \/ \E flags \in FlagInputs : KeyFlagsCall(flags)
    \/ ForCertification
    \/ ForSigning
    \/ ForAuthentication
    \/ ForStorageEncryption
    \/ ForTransportEncryption
    \/ Alive
    \/ \E v \in RevokedInputs : Revoked(v)
    \/ KeyNext
InitKeysSpec == IdleLen /\ IdleArea /\ IdleSig /\ InitKeys /\ IdleExp /\ IdleRaw
SpecKeys == InitKeysSpec /\ [][NextKeys]_vars

NextExpiry == KeyExpiredAt \/ KeyExpiredReset
InitExpirySpec == IdleLen /\ IdleArea /\ IdleSig /\ IdleIter /\ InitExpiry /\ IdleRaw
SpecExpiry == InitExpirySpec /\ [][NextExpiry]_vars

\* Setting subpackets of the Signature at hand through its accessors.
NextAccessors ==
    \/ \E e \in DurationInputs : SetSignatureExpirationTime(e)
    \/ \E e \in DurationInputs : SetKeyExpirationTime(e)
    \/ \E v \in BOOLEAN : SetExportableCertification(v)
    \/ \E re \in RegularExpressionInputs : SetRegularExpression(re)
    \/ \E v \in BOOLEAN : SetRevocable(v)
    \/ \E v \in BOOLEAN : SetPrimaryUserid(v)
    \/ \E uri \in PolicyUriInputs : SetPolicyUri(uri)
    \/ \E t \in SignatureTargetInputs : SetSignatureTarget(t)
InitAccessorsSpec == IdleLen /\ IdleArea /\ InitAccessors /\ IdleIter /\ IdleExp /\ IdleRaw
SpecAccessors == InitAccessorsSpec /\ [][NextAccessors]_vars

\* Converting raw subpackets.
NextRaw == SubpacketFromRaw \/ SubpacketFromNext
InitRawSpec == IdleLen /\ IdleArea /\ IdleSig /\ IdleIter /\ IdleExp /\ InitRaw
SpecRaw == InitRawSpec /\ [][NextRaw]_vars

-----------------------------------------------------------------------------
(* Properties of the length codec and of the SubpacketArea.                *)

\* C6: parsing the bytes produced by serializing n yields n, the number of
\* bytes produced equals len(n), and the encoding is the shortest of the 1-,
\* 2- and 5-octet forms that fits, the 5-octet form starting with 255.
C6_LengthRoundTrip ==
    lenPc = "parsed" =>
        /\ lenOut.ok
        /\ lenOut.len = lenIn
        /\ Len(lenBytes) = SubpacketLengthLen(lenIn)
        /\ Len(lenBytes) = ShortestForm(lenIn)
        /\ (Len(lenBytes) = 5 => lenBytes[1] = 255)

\* A step that is a call of add / replace.
IsAddStep == areaOps' = areaOps + 1 /\ areaOp'.kind = "add"
IsReplaceStep == areaOps' = areaOps + 1 /\ areaOp'.kind = "replace"

\* lookup results are the same before and after the step, for every tag.
LookupsUnchanged ==
    \A tag \in 0..127 : LookupIn(data', parsed', tag) = LookupIn(data, parsed, tag)

\* C7: add fails with MalformedPacket exactly when the area's current length
\* plus the subpacket's serialized length would exceed 65535 bytes; a failed
\* add leaves the bytes and the lookup results unchanged; a successful add
\* appends the subpacket's bytes after the existing ones.
C7_AddContract ==
    [][IsAddStep =>
        LET wire == SubpacketSerialize(areaOp'.packet) IN
        /\ (areaOp'.result = "MalformedPacket") <=> (Len(data) + Len(wire) > U16Max)
        /\ areaOp'.result = "MalformedPacket" => (data' = data /\ LookupsUnchanged)
        /\ areaOp'.result = "Ok" => data' = data \o wire]_vars

\* C8: the area's raw byte length never exceeds 65535, and the length add
\* checks (Subpacket::len) is the number of bytes the subpacket occupies on
\* the wire.
C8_AreaSizeInvariant ==
    /\ Len(data) <= U16Max
    /\ areaOp.kind \in {"add", "replace"} =>
           SubpacketLen(areaOp.packet) = Len(SubpacketSerialize(areaOp.packet))

\* Indices of the records of recs carrying tag, and the k-th of them.
IndicesOf(recs, tag) == {i \in DOMAIN recs : recs[i].tag = tag}
KthIndexOf(recs, tag, k) ==
    CHOOSE i \in IndicesOf(recs, tag) :
        Cardinality({j \in IndicesOf(recs, tag) : j < i}) = k - 1

\* C9: lookup(tag) returns the last record with that tag in iteration order
\* (none if there is none) with its critical flag and payload, and the full
\* scan returns every record with the tag, in area order.
C9_LastWinsLookup ==
    (areaOp.kind = "lookup" /\ areaOp.result = "Ok") =>
        LET recs == AreaIter(data)
            scan == Subpackets(data, areaOp.tag)
            S    == IndicesOf(recs, areaOp.tag)
        IN  /\ areaOp.found.some <=> S # {}
            /\ S # {} =>
                 LET r == recs[CHOOSE i \in S : \A j \in S : j <= i] IN
                 /\ areaOp.found.tag = areaOp.tag
                 /\ areaOp.found.critical = r.critical
                 /\ areaOp.found.value = r.value
            /\ Len(scan) = Cardinality(S)
            /\ \A k \in 1..Len(scan) :
                 LET r == recs[KthIndexOf(recs, areaOp.tag, k)] IN
                 /\ scan[k].critical = r.critical
                 /\ scan[k].value = r.value
                 /\ scan[k].tag = areaOp.tag

\* Witness for C9: a lookup of a tag that occurs twice with different values.
C9_Witness ==
    /\ areaOp.kind = "lookup" /\ areaOp.result = "Ok" /\ areaOp.found.some
    /\ LET scan == Subpackets(data, areaOp.tag)
       IN  Len(scan) >= 2 /\ scan[1].value # scan[Len(scan)].value
                          /\ areaOp.found.value = scan[Len(scan)].value

\* C10: when replace fails on the size limit, the area's bytes are those it
\* had before the call, the subpackets with the same tag included, and every
\* lookup returns what it returned before.
C10_ReplaceRollsBack ==
    [][(IsReplaceStep /\ areaOp'.result = "MalformedPacket") =>
          (data' = data /\ LookupsUnchanged)]_vars

\* Witness for C10: a failed replace on an area holding a subpacket with the
\* tag of the rejected one.
C10_Witness ==
    /\ areaOp.kind = "replace" /\ areaOp.result = "MalformedPacket"
    /\ IndicesOf(AreaIter(data), areaOp.packet.tag) # {}

\* The bytes of d from position pos on, without the records carrying tag:
\* each remaining record as it stands in d (length header, tag octet and
\* payload).  Empty records (a lone zero length octet) carry no tag and are
\* left out, as the iterator leaves them out.
RECURSIVE KeptWire(_, _, _)
KeptWire(d, pos, tag) ==
    The({IF ~l.ok \/ Len(d) - (l.next - 1) < l.len THEN <<>>
         ELSE IF l.len = 0 THEN KeptWire(d, l.next, tag)
         ELSE (IF d[l.next] % 128 = tag THEN <<>>
               ELSE SubSeq(d, pos, l.next + l.len - 1))
              \o KeptWire(d, l.next + l.len, tag) :
            l \in {SubpacketLengthParse(d, pos)}})

\* A step that is a completed call of remove_all.
IsRemoveAllStep ==
    areaOps' = areaOps + 1 /\ areaOp'.kind = "remove_all" /\ areaOp'.result = "Ok"

\* C11: remove_all(tag) returns the area's previous raw bytes and leaves an
\* area with no record of that tag in which every other record stands in its
\* original order with exactly its original bytes, whatever its length form.
C11_RemoveAllPreservesBytes ==
    [][IsRemoveAllStep =>
        /\ areaOp'.returned = data
        /\ IndicesOf(AreaIter(data'), areaOp'.tag) = {}
        /\ data' = KeptWire(data, 1, areaOp'.tag)]_vars

-----------------------------------------------------------------------------
(* Properties of signing and verification.                                 *)

\* The signature s is good for key and digest: it carries a creation time
\* not earlier than the key's, and its mpis are the key's signature over
\* the digest.
GoodFor(s, key, digest) ==
    /\ signature_creation_time(s).some
    /\ signature_creation_time(s).v >= key.creation_time
    /\ s.mpis = SignerSign(key, s.hash_algo, digest)

\* e is a primary key binding signature by subkey over pk and subkey.
ValidBacksig(e, pk, subkey) ==
    /\ e.some
    /\ e.typ = "PrimaryKeyBinding"
    /\ GoodFor(e, subkey, hash_primary_key_binding(e, pk, subkey))

IsVerify(op) == sigOp.kind = "verify" /\ sigOp.op = op

\* C1: verify_subkey_binding enforces the back signature.  For a
\* SubkeyBinding signature whose key flags include the signing capability,
\* the call succeeds only if the signature carries an embedded signature
\* that is a valid primary key binding signature for the same primary key
\* and subkey; when the binding itself is good and the embedded signature
\* is missing the call returns BadSignature, and when it is present but
\* fails the call returns an error.  Without the signing flag the result is
\* that of the binding's own check, whatever is or is not embedded.
C1_BacksigEnforced ==
    (IsVerify("verify_subkey_binding") /\ sig.typ = "SubkeyBinding") =>
        LET e   == embedded_signature(sig)
            own == GoodFor(sig, sigOp.key,
                           hash_subkey_binding(sig, PrimaryKey, sigOp.subkey))
        IN  /\ can_sign(key_flags(sig)) =>
                 /\ sigOp.result = "Ok" =>
                        own /\ ValidBacksig(e, PrimaryKey, sigOp.subkey)
                 /\ (own /\ ValidBacksig(e, PrimaryKey, sigOp.subkey)) =>
                        sigOp.result = "Ok"
                 /\ (own /\ ~e.some) => sigOp.result = "BadSignature"
                 /\ (own /\ e.some /\ ~ValidBacksig(e, PrimaryKey, sigOp.subkey)) =>
                        sigOp.result \in {"BadSignature", "UnsupportedSignatureType"}
            /\ ~can_sign(key_flags(sig)) =>
                 (sigOp.result = "Ok" <=> own)

\* A signing-capable binding that is itself good but whose embedded
\* signature does not verify is rejected.
C1_Witness ==
    /\ IsVerify("verify_subkey_binding") /\ sig.typ = "SubkeyBinding"
    /\ can_sign(key_flags(sig))
    /\ GoodFor(sig, sigOp.key, hash_subkey_binding(sig, PrimaryKey, sigOp.subkey))
    /\ embedded_signature(sig).some
    /\ embedded_signature(sig).typ = "PrimaryKeyBinding"
    /\ ~ValidBacksig(embedded_signature(sig), PrimaryKey, sigOp.subkey)
    /\ sigOp.result = "BadSignature"

\* The types each verify operation lets past its type check.
ExactTypes(op) ==
    CASE op = "verify_standalone" -> {"Standalone"}
      [] op = "verify_timestamp" -> {"Timestamp"}
      [] op = "verify_direct_key" -> {"DirectKey"}
      [] op = "verify_primary_key_revocation" -> {"KeyRevocation"}
      [] op = "verify_subkey_binding" -> {"SubkeyBinding"}
      [] op = "verify_primary_key_binding" -> {"PrimaryKeyBinding"}
      [] op = "verify_subkey_revocation" -> {"SubkeyRevocation"}
      [] op \in {"verify_userid_binding", "verify_user_attribute_binding"} ->
            {"GenericCertification", "PersonaCertification",
             "CasualCertification", "PositiveCertification"}
      [] op \in {"verify_userid_revocation", "verify_user_attribute_revocation"} ->
            {"CertificationRevocation"}
      [] op \in {"verify_message", "verify"} -> {"Binary", "Text"}
      [] OTHER -> SignatureTypes

\* The types of the signing operation of the same class.
MirrorTypes(op) ==
    CASE op = "verify_standalone" -> {"Standalone", "Unknown"}
      [] op = "verify_timestamp" -> {"Timestamp", "Unknown"}
      [] op = "verify_direct_key" -> {"DirectKey", "KeyRevocation", "Unknown"}
      [] op = "verify_subkey_binding" ->
            {"SubkeyBinding", "SubkeyRevocation", "Unknown"}
      [] op = "verify_primary_key_binding" -> {"PrimaryKeyBinding", "Unknown"}
      [] op \in {"verify_userid_binding", "verify_user_attribute_binding"} ->
            {"GenericCertification", "PersonaCertification",
             "CasualCertification", "PositiveCertification",
             "CertificationRevocation", "Unknown"}
      [] op = "verify_message" -> {"Binary", "Text", "Unknown"}
      [] OTHER -> SignatureTypes

ClassVerifyOps ==
    {"verify_standalone", "verify_timestamp", "verify_direct_key",
     "verify_userid_binding", "verify_user_attribute_binding",
     "verify_subkey_binding", "verify_primary_key_binding", "verify_message"}

RevocationVerifyOps ==
    {"verify_primary_key_revocation", "verify_subkey_revocation",
     "verify_userid_revocation", "verify_user_attribute_revocation"}

\* The call was turned down by its own type check.
TypeCheckRejected ==
    /\ sigOp.result = "UnsupportedSignatureType"
    /\ sigOp.errtyp = sig.typ
    /\ sigOp.crypto = <<>>

\* C2: verify_digest, and every verify_* that gets past its type check,
\* returns BadSignature without calling Key::verify when the signature has
\* no creation time or one strictly earlier than the verifying key's
\* creation time; with a creation time equal to or later than the key's,
\* Key::verify is called on the digest, and the result of verify_digest
\* (and of every verify_* that ends in it) is exactly its result.
C2_AntiBackdating ==
    (/\ sigOp.kind = "verify"
     /\ sig.typ \in ExactTypes(sigOp.op)
     /\ (sigOp.op = "verify" => sig.computed_digest.some)) =>
        LET ct  == signature_creation_time(sig)
            key == sigOp.key
        IN  /\ (~ct.some \/ ct.v < key.creation_time) =>
                 (sigOp.result = "BadSignature" /\ sigOp.crypto = <<>>)
            /\ (ct.some /\ ct.v >= key.creation_time) =>
                 /\ sigOp.crypto # <<>>
                 /\ sigOp.crypto[1] = [key |-> key.id, digest |-> sigOp.digest]
                 /\ sigOp.op # "verify_subkey_binding" =>
                        /\ Len(sigOp.crypto) = 1
                        /\ sigOp.result = KeyVerify(key, sig, sigOp.digest)

\* A signature whose mpis are the key's signature over the digest, but
\* which is dated before the key, is rejected.
C2_Witness ==
    /\ IsVerify("verify_standalone") /\ sig.typ = "Standalone"
    /\ signature_creation_time(sig).some
    /\ signature_creation_time(sig).v < sigOp.key.creation_time
    /\ KeyVerify(sigOp.key, sig, sigOp.digest) = "Ok"
    /\ sigOp.result = "BadSignature"
    /\ sigOp.crypto = <<>>

\* The accepted types of the typed signing operations.
AcceptedBySign(op) ==
    CASE op = "sign_standalone" -> {"Standalone", "Unknown"}
      [] op = "sign_timestamp" -> {"Timestamp", "Unknown"}
      [] op = "sign_direct_key" -> {"DirectKey", "KeyRevocation", "Unknown"}
      [] op \in {"sign_userid_binding", "sign_user_attribute_binding"} ->
            {"GenericCertification", "PersonaCertification",
             "CasualCertification", "PositiveCertification",
             "CertificationRevocation", "Unknown"}
      [] op = "sign_subkey_binding" ->
            {"SubkeyBinding", "SubkeyRevocation", "Unknown"}
      [] op = "sign_primary_key_binding" -> {"PrimaryKeyBinding", "Unknown"}
      [] op = "sign_message" -> {"Binary", "Text", "Unknown"}
      [] OTHER -> SignatureTypes

TypedSignOps ==
    {"sign_standalone", "sign_timestamp", "sign_direct_key",
     "sign_userid_binding", "sign_user_attribute_binding",
     "sign_subkey_binding", "sign_primary_key_binding", "sign_message"}

\* C3: a typed signing operation called on a builder whose declared type is
\* outside the operation's accepted set returns UnsupportedSignatureType
\* for that type, before pre_sign has run and before the signer's sign has
\* been invoked, and returns no signature; with a declared type inside the
\* accepted set (Unknown included) the type check passes and pre_sign runs.
C3_TypeCheckFirst ==
    (sigOp.kind = "sign" /\ sigOp.op \in TypedSignOps) =>
        /\ sigOp.typ \notin AcceptedBySign(sigOp.op) =>
              /\ sigOp.result = "UnsupportedSignatureType"
              /\ sigOp.errtyp = sigOp.typ
              /\ ~sigOp.pre_sign
              /\ ~sigOp.signed
              /\ ~sig.some
        /\ sigOp.typ \in AcceptedBySign(sigOp.op) =>
              /\ sigOp.result # "UnsupportedSignatureType"
              /\ sigOp.pre_sign

\* sign_subkey_binding on a builder declared Binary is turned down.
C3_Witness ==
    /\ sigOp.kind = "sign" /\ sigOp.op = "sign_subkey_binding"
    /\ sigOp.typ = "Binary"
    /\ sigOp.result = "UnsupportedSignatureType"
    /\ ~sigOp.pre_sign /\ ~sigOp.signed

\* C4 as stated: each verify operation of the signature-class table lets
\* exactly the types of the signing operation of its class past its type
\* check (Unknown and the revocation types included) and returns
\* UnsupportedSignatureType for every other type.
C4_VerifyMirrorsSigning ==
    (sigOp.kind = "verify" /\ sigOp.op \in ClassVerifyOps) =>
        (TypeCheckRejected <=> sig.typ \notin MirrorTypes(sigOp.op))

\* C4, amended: each verify operation lets exactly these types past its
\* type check and returns UnsupportedSignatureType for every other type,
\* Unknown included: verify_standalone Standalone; verify_timestamp
\* Timestamp; verify_direct_key DirectKey; verify_userid_binding and
\* verify_user_attribute_binding the four certification types;
\* verify_subkey_binding SubkeyBinding; verify_primary_key_binding
\* PrimaryKeyBinding; verify_message Binary and Text.  The revocation types
\* are accepted only by the revocation verifiers: KeyRevocation by
\* verify_primary_key_revocation, SubkeyRevocation by
\* verify_subkey_revocation, CertificationRevocation by
\* verify_userid_revocation and verify_user_attribute_revocation.
C4_VerifyExactTypes ==
    (sigOp.kind = "verify"
        /\ sigOp.op \in ClassVerifyOps \cup RevocationVerifyOps) =>
        (TypeCheckRejected <=> sig.typ \notin ExactTypes(sigOp.op))

\* verify_standalone turns down a signature of type Unknown.
C4_Witness ==
    /\ IsVerify("verify_standalone")
    /\ sig.typ = "Unknown"
    /\ sigOp.result = "UnsupportedSignatureType"

\* The instant the signature was made: the caller's creation time if the
\* builder carried one, the clock at the sign call otherwise.
SigningInstant ==
    IF made.overrode THEN signature_creation_time(sig).v ELSE made.at

\* The digest of the signature at hand, recomputed as its class does.
RecomputedDigest ==
    IF made.op = "sign_message" THEN hash_message(sig, made.msg)
    ELSE hash_standalone(sig)

\* sig was returned by signop with type typ, and the last call was verifyop
\* with the signer's key, which is no younger than the signing instant.
RoundTripCase(signop, typ, verifyop) ==
    /\ sig.some
    /\ made.op = signop
    /\ sig.typ = typ
    /\ IsVerify(verifyop)
    /\ sigOp.key = made.signer
    /\ made.signer.creation_time <= SigningInstant

\* C5: a signature returned by sign_standalone (type Standalone),
\* sign_timestamp (type Timestamp) or sign_message (type Binary) by a
\* signer whose key was created no later than the signing instant verifies
\* with verify_standalone, verify_timestamp or verify_message (same
\* message) against the signer's key, and so does verify_digest with the
\* recomputed digest; verify_digest with any digest that differs from the
\* recomputed one fails, whatever the key.
C5_RoundTrip ==
    /\ RoundTripCase("sign_standalone", "Standalone", "verify_standalone") =>
          sigOp.result = "Ok"
    /\ RoundTripCase("sign_timestamp", "Timestamp", "verify_timestamp") =>
          sigOp.result = "Ok"
    /\ (RoundTripCase("sign_message", "Binary", "verify_message")
            /\ sigOp.digest = RecomputedDigest) =>
          sigOp.result = "Ok"
    /\ \A signop \in {"sign_standalone", "sign_timestamp", "sign_message"} :
          /\ (RoundTripCase(signop, sig.typ, "verify_digest")
                  /\ sigOp.digest = RecomputedDigest) =>
                sigOp.result = "Ok"
          /\ (sig.some /\ made.op = signop /\ IsVerify("verify_digest")
                  /\ sigOp.digest # RecomputedDigest) =>
                sigOp.result = "BadSignature"

\* A message signed as Binary verifies against the signer's key.
C5_Witness ==
    /\ RoundTripCase("sign_message", "Binary", "verify_message")
    /\ made.msg = <<72, 105>>
    /\ sigOp.digest = RecomputedDigest
    /\ sigOp.result = "Ok"

-----------------------------------------------------------------------------
(* Properties of finalization and of the conversion back to a builder.     *)

\* The Issuer and IssuerFingerprint subpackets of area d, as
\* <<tag, critical, value>>.
IssuerSet(d) ==
    {<<r.tag, r.critical, r.value>> :
        r \in {x \in {AreaIter(d)[i] : i \in DOMAIN AreaIter(d)} :
                  x.tag \in {TagIssuer, TagIssuerFingerprint}}}

\* A step in which a sign_* call consumed the builder and returned a
\* signature.
SignedStep ==
    builder.some /\ builder' = NoValue /\ sigOp'.kind = "sign" /\ sig'.some

\* C12: when pre_sign runs and neither an Issuer nor an IssuerFingerprint
\* subpacket is present in either area, both are added to the unhashed area
\* with the signer's key id and fingerprint; when at least one is present,
\* pre_sign adds neither and leaves the existing issuer subpackets alone.
C12_IssuerInjection ==
    [][SignedStep =>
        IF IssuerSet(builder.hashed) = {} /\ IssuerSet(builder.unhashed) = {}
        THEN /\ IssuerSet(sig'.hashed) = {}
             /\ {<<x[1], x[3]>> : x \in IssuerSet(sig'.unhashed)}
                  = {<<TagIssuer, KeyIDBytes(made'.signer)>>,
                     <<TagIssuerFingerprint, <<4>> \o FingerprintBytes(made'.signer)>>}
        ELSE /\ IssuerSet(sig'.hashed) = IssuerSet(builder.hashed)
             /\ IssuerSet(sig'.unhashed) = IssuerSet(builder.unhashed)]_vars

\* C13: every signature returned by a sign_* operation has a creation time
\* subpacket in its hashed area; it is the current time when the caller did
\* not override the creation time and the caller's value when the caller
\* did; the signature's public-key algorithm is the signer's.
C13_CreationTimeStamped ==
    [][SignedStep =>
        /\ LookupIn(sig'.hashed, NoValue, TagSignatureCreationTime).some
        /\ signature_creation_time(sig').some
        /\ signature_creation_time(sig').v =
              (IF builder.overrode_creation_time
               THEN from_be_u32(LookupIn(builder.hashed, NoValue,
                                         TagSignatureCreationTime).value).v
               ELSE now)
        /\ sig'.pk_algo = made'.signer.pk_algo]_vars

\* Witness for C13: a signature made at 12 by the subkey that carries the
\* caller's creation time 9.
C13_Witness ==
    /\ sigOp.kind = "sign" /\ sig.some
    /\ made.overrode /\ made.at = 12
    /\ signature_creation_time(sig).v = 9
    /\ sig.pk_algo = SubKey.pk_algo

-----------------------------------------------------------------------------
(* Properties of comparison, normalization and issuer collection.          *)

\* a and b agree on everything but, possibly, the unhashed area (and the
\* data cached next to the packet).
AgreeButUnhashed(a, b) ==
    /\ Version(a) = Version(b)
    /\ a.typ = b.typ
    /\ a.pk_algo = b.pk_algo
    /\ a.hash_algo = b.hash_algo
    /\ a.hashed = b.hashed
    /\ a.digest_prefix = b.digest_prefix
    /\ a.mpis = b.mpis

\* C14: two signatures that agree on version, type, public-key algorithm,
\* hash algorithm, hashed area, digest prefix and signature value are
\* normalized_eq whatever their unhashed areas hold; two signatures that
\* differ in the hashed area are not.
C14_NormalizedEq ==
    (sigOp.kind = "compare" /\ sigOp.op = "normalized_eq") =>
        /\ AgreeButUnhashed(sig, sigOp.other) => sigOp.result
        /\ sig.hashed # sigOp.other.hashed => ~sigOp.result

\* Witness for C14: a signature found equal to a copy of itself that has
\* four more subpackets in the unhashed area.
C14_Witness ==
    /\ sigOp.kind = "compare" /\ sigOp.op = "normalized_eq"
    /\ sigOp.result
    /\ sig.unhashed = <<>>
    /\ Len(AreaIter(sigOp.other.unhashed)) = 4

Packets(d) ==
    [i \in DOMAIN AreaIter(d) |->
        [critical |-> AreaIter(d)[i].critical, tag |-> AreaIter(d)[i].tag,
         value |-> AreaIter(d)[i].value]]
KeptPackets(d) == SelectSeq(Packets(d), LAMBDA p : p.tag \in NormalizeKeeps)

\* A step that is a call of normalize.
IsNormalizeStep == sigOp'.kind = "normalize" /\ sigOp'.source = sig

IssuerSubpackets(s) ==
    LET all == Packets(s.hashed) \o Packets(s.unhashed)
        ok(p) == \/ p.tag = TagIssuer
                 \/ p.tag = TagIssuerFingerprint /\ p.value # <<>> /\ Head(p.value) = 4
        kept == SelectSeq(all, ok)
    IN  [i \in DOMAIN kept |->
            IF kept[i].tag = TagIssuer THEN <<"KeyID", kept[i].value>>
            ELSE <<"Fingerprint", Tail(kept[i].value)>>]

\* C17: get_issuers returns one handle for every Issuer and
\* IssuerFingerprint subpacket of the hashed area followed by those of the
\* unhashed area, reordered so that every fingerprint precedes every key id,
\* fingerprints and key ids each keeping their order of occurrence.
C17_GetIssuers ==
    (sigOp.kind = "issuers") =>
        LET got  == [i \in DOMAIN sigOp.result |->
                        <<sigOp.result[i].kind, sigOp.result[i].v>>]
            all  == IssuerSubpackets(sig)
            fp(h)  == h[1] = "Fingerprint"
            kid(h) == h[1] = "KeyID"
        IN  got = SelectSeq(all, fp) \o SelectSeq(all, kid)

\* Witness for C17: five issuers from both areas, the unhashed area's
\* fingerprint ahead of the hashed area's key id.
C17_Witness ==
    /\ sigOp.kind = "issuers"
    /\ Len(sigOp.result) = 5
    /\ sigOp.result[2].kind = "Fingerprint"
    /\ sigOp.result[2].v = FingerprintBytes(OtherKey)
    /\ sigOp.result[3].kind = "KeyID"
    /\ sigOp.result[3].v = KeyIDBytes(SubKey)

\* The subpackets of area d that the conversion to a builder is to keep.
StampTags == {TagSignatureCreationTime, TagIssuer, TagIssuerFingerprint}
OtherPackets(d) == SelectSeq(Packets(d), LAMBDA p : p.tag \notin StampTags)

\* A step that converts the signature at hand into a builder.
IsFromStep == sigOp'.kind = "from" /\ sig.some /\ builder'.some

\* What the conversion is to leave in the builder.
FromStepLeaves ==
    /\ Packets(builder'.hashed) = OtherPackets(sig.hashed)
    /\ Packets(builder'.unhashed) = OtherPackets(sig.unhashed)
    /\ builder'.typ = sig.typ
    /\ builder'.hash_algo = sig.hash_algo
    /\ builder'.original_creation_time = signature_creation_time(sig)
    /\ ~builder'.overrode_creation_time

\* What a sign_* call made straight after the conversion is to return.
SignAfterFromStamps ==
    /\ signature_creation_time(sig').some
    /\ signature_creation_time(sig').v = now
    /\ {<<x[1], x[3]>> : x \in IssuerSet(sig'.hashed) \cup IssuerSet(sig'.unhashed)}
         = {<<TagIssuer, KeyIDBytes(made'.signer)>>,
            <<TagIssuerFingerprint, <<4>> \o FingerprintBytes(made'.signer)>>}

\* C18: turning a Signature into a SignatureBuilder removes every
\* SignatureCreationTime, Issuer and IssuerFingerprint subpacket from both
\* areas, keeps every other subpacket and the type and hash algorithm,
\* records the signature's previous creation time and resets the
\* creation-time-overridden flag; a sign_* call that follows stamps the
\* current time and carries the new signer's issuer subpackets.
C18_FromSignature ==
    [][/\ IsFromStep => FromStepLeaves
       /\ (SignedStep /\ sigOp.kind = "from") => SignAfterFromStamps]_vars

\* The same with the subpackets of 16320 bytes and more left out.
C18_BelowFourOctetLengths ==
    [][/\ (IsFromStep /\ Len(sig.hashed) < 16320) => FromStepLeaves
       /\ (SignedStep /\ sigOp.kind = "from" /\ Len(builder.hashed) < 16320)
             => SignAfterFromStamps]_vars

-----------------------------------------------------------------------------
(* Properties of the policy-scoped key iterator.                           *)

\* The keys the traversal has passed so far, in certificate order.
ConsumedKeys ==
    (IF kit.primary /\ ~asked.skipped THEN <<kit.cert.primary>> ELSE <<>>)
        \o SubSeq(kit.cert.subkeys, 1, kit.subkey_iter - 1)

\* Key k has a binding signature at the evaluation time and passes every
\* filter other than the flag filter.
PassesOtherFilters(k) ==
    /\ BindingAt(k, kit.time).ok
    /\ KeyPasses([kit EXCEPT !.flags = NoValue], BindingAt(k, kit.time))

\* The bit of a capability in the first octet of a KeyFlags subpacket.
CapabilityBit(c) ==
    CASE c = "certification" -> 1
      [] c = "signing" -> 2
      [] c = "transport_encryption" -> 4
      [] c = "storage_encryption" -> 8
      [] c = "authentication" -> 32

\* The KeyFlags subpacket of k's binding signature grants a capability of
\* the set requested.
SharesFlag(k, requested) ==
    LET flagPackets == SelectSeq(Packets(BindingAt(k, kit.time).binding.hashed),
                                 LAMBDA p : p.tag = TagKeyFlags)
    IN  /\ flagPackets # <<>>
        /\ flagPackets[Len(flagPackets)].value # <<>>
        /\ \E c \in requested :
              (flagPackets[Len(flagPackets)].value[1] \div CapabilityBit(c)) % 2 = 1

KeyIds(keys) == [i \in DOMAIN keys |-> keys[i].id]

\* C19: a policy-scoped iterator whose requested flag set is empty yields
\* no key, whatever the certificate and the other filters; when no flag
\* filter was requested, a key is yielded whatever its flags are.
C19_EmptyFlagSet ==
    (kit.some /\ kit.scoped) =>
        /\ (asked.flags # {} /\ UNION asked.flags = {}) =>
              /\ yielded = <<>>
              /\ kitOp.kind = "next" => ~kitOp.item.some
        /\ asked.flags = {} =>
              yielded = KeyIds(SelectSeq(ConsumedKeys, PassesOtherFilters))

\* Witness for C19: next was called on an iterator with the empty flag set
\* over a certificate whose primary key passes every other filter.
C19_Witness ==
    /\ kit.some /\ kit.scoped
    /\ asked.flags = {{}}
    /\ kitOp.kind = "next"
    /\ PassesOtherFilters(kit.cert.primary)
    /\ Len(kit.cert.subkeys) = 3

\* C20: the flag sets of repeated key_flags / for_* calls accumulate as a
\* union, and with a non-empty requested set the iterator yields a key if
\* and only if it passes the other filters and the key flags of its binding
\* signature share a flag with the requested set.
C20_CapabilityFilter ==
    (kit.some /\ kit.scoped /\ UNION asked.flags # {}) =>
        yielded = KeyIds(SelectSeq(ConsumedKeys,
                      LAMBDA k : PassesOtherFilters(k)
                                 /\ SharesFlag(k, UNION asked.flags)))

\* Witness for C20: after for_signing and for_transport_encryption the
\* traversal is exhausted, having yielded the signing-capable keys and the
\* encryption-capable subkey and skipped the subkey without key flags.
C20_Witness ==
    /\ kit.some /\ kit.scoped
    /\ asked.flags = {{"signing"}, {"transport_encryption"}}
    /\ kitOp.kind = "next" /\ ~kitOp.item.some
    /\ kit.subkey_iter = Len(kit.cert.subkeys) + 1
    /\ yielded = <<1, 2, 3>>
    /\ PassesOtherFilters(kit.cert.subkeys[3])

\* C21: over a certificate whose primary key has no binding signature at
\* the evaluation time every call of next returns None: no key of the
\* certificate is ever yielded, whatever filters or modes are configured.
C21_PrimaryPoisoning ==
    (kit.some /\ kit.scoped /\ ~BindingAt(kit.cert.primary, kit.time).ok) =>
        /\ yielded = <<>>
        /\ kitOp.kind = "next" => ~kitOp.item.some

\* The same for the first call of next on an iterator that does not skip
\* the primary key.
C21_FirstNextWithoutSkip ==
    (/\ kit.some /\ kit.scoped /\ ~BindingAt(kit.cert.primary, kit.time).ok
     /\ ~asked.skipped /\ kitOp.kind = "next" /\ kit.subkey_iter = 1) =>
        /\ yielded = <<>>
        /\ ~kitOp.item.some

\* Key k has a binding signature at the evaluation time and passes every
\* filter of the iterator.
ResolvesAndPasses(k) ==
    /\ BindingAt(k, kit.time).ok
    /\ KeyPasses(kit, BindingAt(k, kit.time))

LastRevoked ==
    IF asked.revoked = <<>> THEN NoValue ELSE asked.revoked[Len(asked.revoked)]

\* Key k resolves and passes every filter other than the revocation filter.
PassesButRevoked(k) ==
    /\ BindingAt(k, kit.time).ok
    /\ KeyPasses([kit EXCEPT !.revoked = NoValue], BindingAt(k, kit.time))

\* C23: with revoked(false) the iterator yields exactly the otherwise
\* matching keys whose status is not Revoked (CouldBe and NotAsFarAsWeKnow
\* are yielded), with revoked(true) exactly those whose status is Revoked,
\* with no call or revoked(None) the status is ignored; of several calls
\* the last one applies.
C23_RevocationFilter ==
    (kit.some /\ kit.scoped) =>
        yielded = KeyIds(SelectSeq(ConsumedKeys,
                      LAMBDA k : /\ PassesButRevoked(k)
                                 /\ LastRevoked.some =>
                                       IF LastRevoked.v THEN k.status = "Revoked"
                                       ELSE k.status \in {"CouldBe", "NotAsFarAsWeKnow"}))

\* Witness for C23: after revoked(true) and then revoked(false) the
\* traversal ended having yielded a key that could be revoked and skipped
\* the revoked one.
C23_Witness ==
    /\ kit.some /\ kit.scoped
    /\ asked.revoked = <<[some |-> TRUE, v |-> TRUE], [some |-> TRUE, v |-> FALSE]>>
    /\ kitOp.kind = "next" /\ ~kitOp.item.some
    /\ Len(kit.cert.subkeys) = 2
    /\ kit.cert.subkeys[1].status = "CouldBe"
    /\ kit.cert.subkeys[2].status = "Revoked"
    /\ PassesButRevoked(kit.cert.subkeys[2])
    /\ yielded = <<1, 2>>

\* Key k resolves and passes every filter other than the key handle
\* filter.
PassesButHandles(k) ==
    /\ BindingAt(k, kit.time).ok
    /\ KeyPasses([kit EXCEPT !.key_handles = <<>>], BindingAt(k, kit.time))

\* C24: the handles of repeated key_handle / key_handles calls accumulate;
\* with one or more handles given the iterator yields exactly the otherwise
\* matching keys that one of them designates, in certificate order, and
\* with none given nothing is filtered; handles given before policy() count
\* as those given after it.
C24_KeyHandleFilter ==
    (kit.some /\ kit.scoped) =>
        yielded = KeyIds(SelectSeq(ConsumedKeys,
                      LAMBDA k : /\ PassesButHandles(k)
                                 /\ asked.handles # {} =>
                                       \E x \in asked.handles : x.h.id = k.id))

\* Witness for C24: one handle was given before policy() and one after it,
\* and the traversal ended having yielded the two keys they designate.
C24_Witness ==
    /\ kit.some /\ kit.scoped
    /\ asked.handles = {[h |-> [kind |-> "KeyID", id |-> 2], scoped |-> FALSE],
                        [h |-> [kind |-> "Fingerprint", id |-> 3], scoped |-> TRUE]}
    /\ kitOp.kind = "next" /\ ~kitOp.item.some
    /\ PassesButHandles(kit.cert.primary)
    /\ yielded = <<2, 3>>

-----------------------------------------------------------------------------
(* Properties of key expiration.                                           *)

\* C25: key_expired_at reports expired if and only if the key has an
\* expiration e and c + e <= t, c + e being the sum of the two numbers and
\* not its residue modulo 2^32; without a key expiration subpacket the key
\* is never expired.
C25_KeyExpirationBoundary ==
    (expIn.some /\ expOut.kind # "idle") =>
        /\ expOut.kind = "ok"
        /\ expOut.expired <=>
              /\ expIn.expiration.some
              /\ WideLeq(WideSum(expIn.creation_time, expIn.expiration.v), expIn.tm)

\* The same for keys whose creation time and expiration add up to less
\* than 2^32.
C25_BelowOverflow ==
    (/\ expIn.some /\ expOut.kind # "idle"
     /\ expIn.expiration.some =>
           WideSum(expIn.creation_time, expIn.expiration.v)[1] = 0) =>
        /\ expOut.kind = "ok"
        /\ expOut.expired <=>
              /\ expIn.expiration.some
              /\ WideLeq(WideSum(expIn.creation_time, expIn.expiration.v), expIn.tm)

\* With the alive filter set, no key yielded is expired or not yet created
\* at the evaluation time.
C25_AliveFilter ==
    (kit.some /\ kit.scoped /\ kit.alive.some) =>
        \A k \in {kit.cert.primary} \cup {kit.cert.subkeys[i] : i \in DOMAIN kit.cert.subkeys} :
            (\E i \in DOMAIN yielded : yielded[i] = k.id) =>
                /\ k.creation_time <= kit.time
                /\ \A e \in {key_expiration_time(BindingAt(k, kit.time).binding)} :
                      e.some => kit.time < k.creation_time + e.v

-----------------------------------------------------------------------------
(* Properties of the subpacket accessors.                                  *)

\* A step that is one successful setter call.
IsSetStep == sigOp'.kind = "set" /\ sigOp'.calls = SetCalls + 1 /\ sigOp'.ok

\* The tags that have a getter.
GetterTags == (2..33) \ UnknownTags

\* The getter of tag returns the value given to the setter.
ReturnsArgument(f, tag, arg) ==
    /\ Getter(f, tag).some
    /\ IF tag \in {TagSignatureExpirationTime, TagKeyExpirationTime}
       THEN AsI64(Getter(f, tag).v) = arg.v
       ELSE Getter(f, tag).v = arg.v
    /\ Cardinality(IndicesOf(AreaIter(f.hashed), tag)) = 1

\* The getter of tag returns None, and neither the signature nor a key it
\* binds is expired at any of three times.
NoLongerExpires(f, tag) ==
    /\ Getter(f, tag) = NoValue
    /\ \A tm \in {<<0, 0, 0>>, <<0, 0, 400>>, <<1, 65535, 65535>>} :
          IF tag = TagSignatureExpirationTime
          THEN signature_expired_at(f, tm) = {[kind |-> "ok", expired |-> FALSE]}
          ELSE key_expired_at(<<0, 10>>, Getter(f, tag), tm)
                  = {[kind |-> "ok", expired |-> FALSE]}

\* What a successful setter call establishes.
SetEstablishes ==
    /\ IF sigOp'.arg.some
       THEN ReturnsArgument(sig', sigOp'.tag, sigOp'.arg)
       ELSE NoLongerExpires(sig', sigOp'.tag)
    /\ \A t \in GetterTags \ {sigOp'.tag} : Getter(sig', t) = Getter(sig, t)

\* C26: after set_X(v) succeeds the getter X() returns v, whatever was set
\* before: exactly one subpacket with the tag is in the hashed area and the
\* value read for every other tag is unchanged; after
\* set_signature_expiration_time(None) or set_key_expiration_time(None) the
\* getter returns None and the signature or key no longer expires.
C26_AccessorRoundTrip == [][IsSetStep => SetEstablishes]_vars

\* The same for calls whose duration is not negative and whose signature
\* target carries a digest.
C26_WithinDecodedRange ==
    [][IsSetStep
       /\ (sigOp'.tag \in {TagSignatureExpirationTime, TagKeyExpirationTime}
              /\ sigOp'.arg.some => sigOp'.arg.v[1] = 0)
       /\ (sigOp'.tag = TagSignatureTarget => sigOp'.arg.v.digest # <<>>)
       => SetEstablishes]_vars

-----------------------------------------------------------------------------
(* The lookup cache of a SubpacketArea.                                    *)

\* The last record with tag that a scan of d from its first byte finds.
FreshScan(d, tag) ==
    LET recs == AreaIter(d)
        S    == IndicesOf(recs, tag)
    IN  IF S = {} THEN NoValue
        ELSE LET r == recs[CHOOSE i \in S : \A j \in S : j <= i]
             IN  [some |-> TRUE, critical |-> r.critical, tag |-> tag,
                  value |-> r.value]

\* C27: in every state reached through new/empty, add, replace, remove_all
\* and lookup, lookup(tag) returns the record a fresh scan of the current
\* bytes returns (the last with the tag, or none), every cached offset and
\* length lies inside the buffer, and an index that is present was built
\* from the current bytes.
C27_CacheCoherence ==
    /\ parsed.some =>
          /\ parsed = CacheBuild(data)
          /\ \A t \in DOMAIN parsed.map :
                parsed.map[t][2] + parsed.map[t][3] <= Len(data)
    /\ (parsed.some \/ ~IterPanics(data)) =>
          \A tag \in 0..127 : LookupIn(data, parsed, tag) = FreshScan(data, tag)
    /\ areaOp.kind = "lookup" /\ areaOp.result = "Ok" =>
          areaOp.found = FreshScan(data, areaOp.tag)

\* A lookup through an index rebuilt after two adds of the same tag.
C27_Witness ==
    /\ areaOp.kind = "lookup" /\ areaOp.result = "Ok" /\ areaOp.found.some
    /\ areaOps = 3 /\ parsed.some
    /\ Cardinality(IndicesOf(AreaIter(data), areaOp.tag)) = 2

-----------------------------------------------------------------------------
(* Properties of the subpacket decoder.                                    *)

BooleanTags == {TagExportableCertification, TagRevocable, TagPrimaryUserID}

\* rawOut is the conversion of a raw subpacket with one of the tags.
Converted(tags) == rawIn.some /\ rawOut.kind # "idle" /\ rawIn.tag \in tags

\* rawOut is Invalid and carries the raw bytes.
IsInvalidRaw == rawOut.kind = "Invalid" /\ rawOut.v = rawIn.value

\* C28: a one-byte Revocable payload decodes to true for any nonzero byte,
\* a one-byte ExportableCertification or PrimaryUserID payload decodes to
\* true only when the byte is exactly 1; a payload whose length is not 1
\* decodes to Invalid for all three tags.
C28_BooleanDecoding ==
    Converted(BooleanTags) =>
        IF Len(rawIn.value) # 1 THEN IsInvalidRaw
        ELSE /\ rawOut.kind = "Valid"
             /\ rawOut.v = IF rawIn.tag = TagRevocable
                           THEN rawIn.value[1] # 0
                           ELSE rawIn.value[1] = 1

\* The same with PrimaryUserID true for any nonzero byte, as Revocable.
C28_PrimaryUserIDNonzero ==
    Converted(BooleanTags) =>
        IF Len(rawIn.value) # 1 THEN IsInvalidRaw
        ELSE /\ rawOut.kind = "Valid"
             /\ rawOut.v = IF rawIn.tag = TagExportableCertification
                           THEN rawIn.value[1] = 1
                           ELSE rawIn.value[1] # 0

\* The payload holds the 8-byte header and exactly the name and value bytes
\* the header declares.
WellFormedNotation(p) ==
    /\ Len(p) >= 8
    /\ Len(p) = 8 + (p[5] * 256 + p[6]) + (p[7] * 256 + p[8])

\* rawOut is the notation the payload spells out.
IsNotationOf(p) ==
    /\ rawOut.kind = "Valid"
    /\ rawOut.v = [flags |-> <<p[1] * 256 + p[2], p[3] * 256 + p[4]>>,
                   name  |-> SubSeq(p, 9, 8 + p[5] * 256 + p[6]),
                   value |-> SubSeq(p, 9 + p[5] * 256 + p[6], Len(p))]

\* C29: a NotationData payload decodes to a notation {flags, name, value}
\* if and only if it holds the 8-byte header and its total length is 8 plus
\* the declared name and value lengths, both lengths 0 included; every other
\* payload decodes to Invalid carrying the raw bytes.
C29_NotationDecoding ==
    Converted({TagNotationData}) =>
        IF WellFormedNotation(rawIn.value) THEN IsNotationOf(rawIn.value)
        ELSE IsInvalidRaw

\* The same for payloads longer than the header.
C29_BeyondHeader ==
    Converted({TagNotationData}) /\ Len(rawIn.value) # 8 =>
        IF WellFormedNotation(rawIn.value) THEN IsNotationOf(rawIn.value)
        ELSE IsInvalidRaw

-----------------------------------------------------------------------------
(* The accessors and the unhashed area.                                    *)

\* Unhashed areas a signature with the same hashed area may carry.
OtherUnhashed ==
    { <<>>,
      AreaOf(<<CreationTimePacket(5),
               ExpirationPacket(TagSignatureExpirationTime, 600),
               ExpirationPacket(TagKeyExpirationTime, 600),
               [critical |-> FALSE, tag |-> TagExportableCertification, value |-> <<1>>],
               [critical |-> FALSE, tag |-> TagRevocable, value |-> <<1>>],
               [critical |-> FALSE, tag |-> TagReasonForRevocation, value |-> <<3, 120>>],
               KeyFlagsPacket(<<12>>),
               NotationPacket(<<117>>, <<>>),
               PolicyPacket(<<117>>),
               IssuerFingerprintPacket(SubKey)>>),
      AreaOf(<<IssuerPacket(SubKey), CompareEmbedded>>) }

\* The value a getter would return from the last subpacket with tag that a
\* scan of area d finds.
ValueIn(d, tag) ==
    LET sb == FreshScan(d, tag)
    IN  IF sb.some /\ SubpacketFrom(sb).kind = "Valid"
        THEN [some |-> TRUE, v |-> SubpacketFrom(sb).v] ELSE NoValue

\* The results of the accessors of f that never read the unhashed area.
HashedOnlyResults(f) ==
    <<[t \in GetterTags \ {TagIssuer, TagEmbeddedSignature} |-> Getter(f, t)],
      notation_data(f), signature_creation_time(f), key_flags(f),
      issuer_fingerprint(f)>>

\* C30: an accessor takes its value from the unhashed area only for Issuer
\* and EmbeddedSignature, and only when the hashed area holds no subpacket
\* with that tag; for every other tag, signatures with the same hashed area
\* return the same accessor results whatever their unhashed areas hold.
C30_UnhashedIsolation ==
    sig.some =>
        /\ \A t \in {TagIssuer, TagEmbeddedSignature} :
              Getter(sig, t) = IF FreshScan(sig.hashed, t).some
                               THEN ValueIn(sig.hashed, t)
                               ELSE ValueIn(sig.unhashed, t)
        /\ \A t \in GetterTags \ {TagIssuer, TagEmbeddedSignature} :
              Getter(sig, t) = ValueIn(sig.hashed, t)
        /\ \A u \in OtherUnhashed :
              /\ HashedOnlyResults([sig EXCEPT !.unhashed = u]) = HashedOnlyResults(sig)
              /\ \A t \in {TagIssuer, TagEmbeddedSignature} :
                    FreshScan(sig.hashed, t).some =>
                       Getter([sig EXCEPT !.unhashed = u], t) = Getter(sig, t)

\* After a setter call: the issuer is read from the unhashed area, and the
\* signature expiration time found there is not.
C30_Witness ==
    /\ sig.some /\ sigOp.kind = "set"
    /\ ~FreshScan(sig.hashed, TagIssuer).some
    /\ Getter(sig, TagIssuer) = [some |-> TRUE, v |-> KeyIDBytes(OtherKey)]
    /\ FreshScan(sig.unhashed, TagSignatureExpirationTime).some
    /\ Getter(sig, TagSignatureExpirationTime) = NoValue
====
